---- MODULE Spec2Model ----
(***************************************************************************)
(* Model of the consulta-cnpj enrichment engine (src/src/main/main.ts):    *)
(* identifier validation, cache partition, the round orchestrator          *)
(* (processWorkbook), the worker pool (queryCnpjsParallel), the provider   *)
(* fallback chain (consultarSimples) and the API client (requestJson with  *)
(* its rate limiter and circuit breaker).                                  *)
(*                                                                         *)
(* Time is in milliseconds since the worker thread started.  Text is a     *)
(* sequence of one-character strings.  visualProgress is the double the    *)
(* code computes: every division, product and sum of the progress          *)
(* arithmetic is rounded to 53 significant bits, ties to even.             *)
(***************************************************************************)
EXTENDS Integers, Sequences, FiniteSets, TLC

(***************************************************************************)
(* Bounds of the model.                                                    *)
(***************************************************************************)
MaxWorkers == 2
MaxReprocess == 1
MaxRowsLimit == 3
MaxRetryRounds == 5
MaxSoftReprocess == 2

(***************************************************************************)
(* Program constants.                                                      *)
(***************************************************************************)
CNPJ_LENGTH == 14
MIN_DELAY_MS == 100
PROVIDER_FAILURE_THRESHOLD == 4
PROVIDER_COOLDOWN_MS == 45000
MAX_RETRIES == 2
BACKOFF_CAP_SECONDS == 4
ROUND_WAIT_CAP_SECONDS == 8

PROVIDERS_FALLBACK == <<"receitaws", "minhareceita", "brasilapi", "cnpjws">>

ProviderNames == {PROVIDERS_FALLBACK[i] : i \in 1..Len(PROVIDERS_FALLBACK)}

\* PROVIDER_RATE_FACTORS in tenths (1.0, 0.4, 0.4, 0.7).
PROVIDER_RATE_FACTORS == [receitaws |-> 10, minhareceita |-> 4, brasilapi |-> 4, cnpjws |-> 7]

(***************************************************************************)
(* Small helpers.                                                          *)
(***************************************************************************)
Max(a, b) == IF a >= b THEN a ELSE b

Min(a, b) == IF a <= b THEN a ELSE b

Range(s) == {s[i] : i \in 1..Len(s)}

Digits == <<"0", "1", "2", "3", "4", "5", "6", "7", "8", "9">>

IsDigit(c) == c \in Range(Digits)

DigitVal(c) == CHOOSE i \in 1..Len(Digits) : Digits[i] = c

IsSpace(c) == c \in {" ", "\t"}

\* String.prototype.trim on a sequence of characters.
RECURSIVE TrimLeft(_)
TrimLeft(s) ==
  IF s # <<>> /\ IsSpace(Head(s)) THEN TrimLeft(Tail(s)) ELSE s

RECURSIVE TrimRight(_)
TrimRight(s) ==
  IF s # <<>> /\ IsSpace(s[Len(s)]) THEN TrimRight(SubSeq(s, 1, Len(s) - 1)) ELSE s

Trim(s) == TrimRight(TrimLeft(s))

\* sanitizeCnpj: drop every non-digit, keep the result only when it has
\* exactly 14 digits; the empty text marks an invalid identifier.
\* Variant of sanitizeCnpj that accepts 14 digits or more.
sanitizeCnpjAtLeast(value) ==
  LET digits == SelectSeq(value, IsDigit)
  IN IF Len(digits) >= CNPJ_LENGTH THEN digits ELSE <<>>

sanitizeCnpj(value) ==
  LET digits == SelectSeq(value, IsDigit)
  IN IF Len(digits) = CNPJ_LENGTH THEN digits ELSE <<>>

\* Lexicographic order of two texts (Array.prototype.sort default order on
\* digit strings).
RECURSIVE TextLess(_, _)
TextLess(a, b) ==
  IF a = <<>> THEN b # <<>>
  ELSE IF b = <<>> THEN FALSE
  ELSE IF Head(a) = Head(b) THEN TextLess(Tail(a), Tail(b))
  ELSE DigitVal(Head(a)) < DigitVal(Head(b))

\* Array.from(set).sort()
RECURSIVE SortCnpjs(_)
SortCnpjs(S) ==
  IF S = {} THEN <<>>
  ELSE LET m == CHOOSE x \in S : \A y \in S \ {x} : TextLess(x, y)
       IN <<m>> \o SortCnpjs(S \ {m})

(***************************************************************************)
(* Inputs: the cells of the identifier column (row 2 onwards), the cache   *)
(* file and the job options.                                               *)
(***************************************************************************)
RawA == <<"1","1",".","2","2","2",".","3","3","3","/","0","0","0","1","-","8","1">>
RawAPlain == <<" ","1","1","2","2","2","3","3","3","0","0","0","1","8","1">>
RawB == <<"0","4","2","5","2","0","1","1","0","0","0","1","1","0">>
RawShort == <<"1","2","3">>
RawLong == <<"1","1","2","2","2","3","3","3","0","0","0","1","8","1","9">>
RawBlank == <<" ">>

CnpjA == sanitizeCnpj(RawA)
CnpjB == sanitizeCnpj(RawB)
CnpjZ == <<"9","9","9","9","9","9","9","9","0","0","0","1","9","9">>

SheetCells == <<RawA, RawShort, RawB, RawBlank, RawAPlain, RawLong>>

\* The rows of the sheet: cell i holds row i + 1 (row 1 is the header);
\* a cell that is empty after trim() is skipped.
rowData ==
  LET keep(i) == Trim(SheetCells[i]) # <<>>
      idx == SelectSeq([i \in 1..Len(SheetCells) |-> i], keep)
  IN [k \in 1..Len(idx) |-> [row |-> idx[k] + 1, cnpjRaw |-> Trim(SheetCells[idx[k]])]]

\* The cache file: unreadable or not a JSON object (ok = FALSE), or a JSON
\* object key -> value.  'NÃO' is written "NAO".
CacheFiles ==
  { [ok |-> FALSE, entries |-> <<>>],
    [ok |-> TRUE, entries |-> (CnpjA :> "SIM")],
    [ok |-> TRUE, entries |-> (CnpjA :> "ERRO") @@ (CnpjB :> "NAO")],
    [ok |-> TRUE, entries |-> (CnpjZ :> "NAO") @@ (CnpjB :> "PENDENTE")] }

MaxRowsChoices ==
  {[isNull |-> TRUE, n |-> 0]} \cup {[isNull |-> FALSE, n |-> k] : k \in 0..MaxRowsLimit}

DelayChoices == {50, 5000}

\* The input file of the request: its extension, and whether fs.stat finds a
\* regular file there.
InputFiles ==
  { [ext |-> ".xlsx", isFile |-> TRUE],
    [ext |-> ".xlsx", isFile |-> FALSE],
    [ext |-> ".csv", isFile |-> TRUE] }

\* loadCache: an unreadable file gives the empty mapping; only the entries
\* whose value is 'SIM' or 'NÃO' are kept.
\* Variant of loadCache that keeps every entry of the file.
loadCacheUnfiltered(file) == IF ~file.ok THEN <<>> ELSE file.entries

loadCache(file) ==
  IF ~file.ok THEN <<>>
  ELSE LET keys == {k \in DOMAIN file.entries : file.entries[k] \in {"SIM", "NAO"}}
       IN [k \in keys |-> file.entries[k]]

\* saveCache: only the entries whose value is 'SIM' or 'NÃO' are written.
saveCache(cache) ==
  LET keys == {k \in DOMAIN cache : cache[k] \in {"SIM", "NAO"}}
  IN [k \in keys |-> cache[k]]

\* String(row) and Number.parseInt(text, 10) on non-negative integers.
RECURSIVE RowToText(_)
RowToText(n) ==
  IF n < 10 THEN <<Digits[n + 1]>>
  ELSE RowToText(n \div 10) \o <<Digits[(n % 10) + 1]>>

RECURSIVE ParseRow(_)
ParseRow(t) ==
  IF t = <<>> THEN 0
  ELSE 10 * ParseRow(SubSeq(t, 1, Len(t) - 1)) + (DigitVal(t[Len(t)]) - 1)

(***************************************************************************)
(* JSON values of a provider response and the shared status extraction.    *)
(***************************************************************************)
JAbsent == [t |-> "absent"]
JNull == [t |-> "null"]
JBool(b) == [t |-> "bool", b |-> b]
JStr(s) == [t |-> "str", s |-> s]
JObj(f) == [t |-> "obj", f |-> f]
JArr(items) == [t |-> "arr", items |-> items]

\* payload.name (undefined when the object has no such field)
Get(obj, name) == IF name \in DOMAIN obj THEN obj[name] ELSE JAbsent

\* toJsonRecord: the object's fields, or null for anything that is not a
\* plain object (null is modelled by the value JNull).
toJsonRecord(value) == IF value.t = "obj" THEN value ELSE JNull

LowerCase == <<"a","b","c","d","e","f","g","h","i","j","k","l","m","n","o","p","q","r","s","t","u","v","w","x","y","z">>
UpperCase == <<"A","B","C","D","E","F","G","H","I","J","K","L","M","N","O","P","Q","R","S","T","U","V","W","X","Y","Z">>

UpperChar(c) ==
  IF \E i \in 1..Len(LowerCase) : LowerCase[i] = c
  THEN UpperCase[CHOOSE i \in 1..Len(LowerCase) : LowerCase[i] = c]
  ELSE c

toUpperCase(s) == [i \in 1..Len(s) |-> UpperChar(s[i])]

\* String.prototype.includes
Includes(s, sub) ==
  \E i \in 1..(Len(s) - Len(sub) + 1) : SubSeq(s, i, i + Len(sub) - 1) = sub

TextSIMPLES == <<"S","I","M","P","L","E","S">>
TextERROR == <<"E","R","R","O","R">>

\* String(value ?? '') for the values a regime entry can carry (an array
\* of one string gives that string, the empty array the empty string).
JsString(value) ==
  CASE value.t = "str" -> value.s
    [] value.t \in {"absent", "null"} -> <<>>
    [] value.t = "bool" -> IF value.b THEN <<"t","r","u","e">> ELSE <<"f","a","l","s","e">>
    [] value.t = "arr" /\ Len(value.items) = 0 -> <<>>
    [] value.t = "arr" /\ Len(value.items) = 1 /\ value.items[1].t = "str" -> value.items[1].s
    [] OTHER -> <<"[","o","b","j","e","c","t"," ","O","b","j","e","c","t","]">>

Outcome(status, detail, provider) ==
  [status |-> status, detail |-> detail, provider |-> provider]

YesNo(flag, providerName, yesText, noText) ==
  IF flag THEN Outcome("SIM", <<providerName, yesText>>, providerName)
  ELSE Outcome("NAO", <<providerName, noText>>, providerName)

\* parseGenericSimples(payload, providerName)
\* Variant of parseGenericSimples that compares the regime without toUpperCase().
parseGenericSimplesCaseSensitive(payload, providerName) ==
  LET simples == Get(payload, "simples")
      simplesObject == toJsonRecord(simples)
      optante == IF simplesObject.t = "obj" THEN Get(simplesObject.f, "optante") ELSE JAbsent
      opcao == Get(payload, "opcao_pelo_simples")
      opcaoAlt == Get(payload, "opcao_simples")
      regime == Get(payload, "regime_tributario")
      records == IF regime.t = "arr"
                 THEN SelectSeq(regime.items, LAMBDA item : toJsonRecord(item).t = "obj")
                 ELSE <<>>
      formas == [i \in 1..Len(records) |->
                   JsString(Get(records[i].f, "forma_de_tributacao"))]
  IN IF optante.t = "bool"
       THEN YesNo(optante.b, providerName, "simples.optante=true", "simples.optante=false")
     ELSE IF simples.t = "bool"
       THEN YesNo(simples.b, providerName, "simples=true", "simples=false")
     ELSE IF opcao.t = "bool"
       THEN YesNo(opcao.b, providerName, "opcao_pelo_simples=true", "opcao_pelo_simples=false")
     ELSE IF opcaoAlt.t = "bool"
       THEN YesNo(opcaoAlt.b, providerName, "opcao_simples=true", "opcao_simples=false")
     ELSE IF regime.t = "arr" /\ Len(regime.items) > 0
       THEN YesNo(\E i \in 1..Len(formas) : Includes(formas[i], TextSIMPLES), providerName,
                  "regime_tributario=simples", "regime_tributario sem simples")
     ELSE Outcome("NAO", <<providerName, "campo de simples NAO retornado">>, providerName)

parseGenericSimples(payload, providerName) ==
  LET simples == Get(payload, "simples")
      simplesObject == toJsonRecord(simples)
      optante == IF simplesObject.t = "obj" THEN Get(simplesObject.f, "optante") ELSE JAbsent
      opcao == Get(payload, "opcao_pelo_simples")
      opcaoAlt == Get(payload, "opcao_simples")
      regime == Get(payload, "regime_tributario")
      records == IF regime.t = "arr"
                 THEN SelectSeq(regime.items, LAMBDA item : toJsonRecord(item).t = "obj")
                 ELSE <<>>
      formas == [i \in 1..Len(records) |->
                   toUpperCase(JsString(Get(records[i].f, "forma_de_tributacao")))]
  IN IF optante.t = "bool"
       THEN YesNo(optante.b, providerName, "simples.optante=true", "simples.optante=false")
     ELSE IF simples.t = "bool"
       THEN YesNo(simples.b, providerName, "simples=true", "simples=false")
     ELSE IF opcao.t = "bool"
       THEN YesNo(opcao.b, providerName, "opcao_pelo_simples=true", "opcao_pelo_simples=false")
     ELSE IF opcaoAlt.t = "bool"
       THEN YesNo(opcaoAlt.b, providerName, "opcao_simples=true", "opcao_simples=false")
     ELSE IF regime.t = "arr" /\ Len(regime.items) > 0
       THEN YesNo(\E i \in 1..Len(formas) : Includes(formas[i], TextSIMPLES), providerName,
                  "regime_tributario=simples", "regime_tributario sem simples")
     ELSE Outcome("NAO", <<providerName, "campo de simples NAO retornado">>, providerName)

\* The value requestJson returns: [parsed, null] or [null, error].
JsonOk(payload) == [ok |-> TRUE, payload |-> payload, error |-> <<>>]
JsonErr(detail) == [ok |-> FALSE, payload |-> <<>>, error |-> detail]

\* consultarReceitaWs / consultarMinhaReceita / consultarBrasilApi /
\* consultarCnpjWs applied to what requestJson returned.
consultarProvider(providerName, res) ==
  IF ~res.ok THEN Outcome("ERRO", res.error, providerName)
  ELSE IF providerName = "receitaws" /\ Get(res.payload, "status") = JStr(TextERROR)
    THEN Outcome("ERRO",
                 <<"receitaws",
                   IF Get(res.payload, "message").t \in {"absent", "null"}
                   THEN "erro na consulta" ELSE "message">>,
                 "receitaws")
  ELSE parseGenericSimples(res.payload, providerName)

\* Response bodies the providers answer with.
PayloadOptante == ("simples" :> JObj("optante" :> JBool(TRUE)))
PayloadEmpty == <<>>
PayloadAppError == ("status" :> JStr(TextERROR)) @@ ("simples" :> JBool(TRUE))
PayloadRegime ==
  ("regime_tributario" :>
     JArr(<<JObj("forma_de_tributacao" :> JStr(<<"S","i","m","p","l","e","s"," ","N">>))>>))

PayloadPool == {PayloadOptante, PayloadEmpty, PayloadAppError, PayloadRegime}

VARIABLES
  options,                \* ProcessingOptions: delayMs, maxRows, workers, reprocessRounds
  cacheFile,              \* content of cache_simples_nacional.json when the job starts
  pcMain,                 \* position of processWorkbook
  stopRequested,          \* the worker thread's stop flag
  now,                    \* Date.now()
  job,                    \* locals of processWorkbook
  roundIndex,
  pendingCnpjs,
  interrupted,
  mainWakeAt,             \* deadline of the inter-round sleepInterruptible
  cnpjs,                  \* queryCnpjsParallel: the round's list
  results,                \* queryCnpjsParallel: outcome map
  completed,
  activeRequests,
  taskIndex,
  wk,                     \* the workerLoop instances of the round
  providerFailures,       \* SimplesApiClient
  providerCooldownUntil,
  nextAllowed,            \* ProviderRateLimiter
  doneEvent,              \* the done event posted by runWorker
  errorEvent,             \* the error event posted by runWorker
  savedCache,             \* what saveCache wrote
  reportFile,             \* what writeDetailedReport wrote
  taken,                  \* history: identifiers dequeued in the round
  obtained,               \* history: outcomes returned by the resolver in the round
  netlog,                 \* history: dispatches per provider
  activeWorker,           \* main process: the Worker of the job in progress (0: null)
  activeJobId,            \* main process: the id of the job in progress (0: null)
  created,                \* main process: how many Workers were constructed
  workerData,             \* main process: the workerData of the last Worker
  ipcCalls,               \* main process: how many IPC calls were handled
  ipcPayload,             \* main process: the payload of the last startJob call
  ipcReply,               \* main process: what the last IPC call returned or threw
  sentEvents,             \* main process: events forwarded to the window
  stopPosts,              \* main process: stop messages posted to the Worker
  parseInput,             \* parseGenericSimples alone: its arguments
  parseOutput,            \* parseGenericSimples alone: what it returned
  ui,                     \* renderer: the state of App and its calls in flight
  hosts                   \* how the four hosts answer during the run

vars ==
  <<options, cacheFile, pcMain, stopRequested, now, job, roundIndex, pendingCnpjs,
    interrupted, mainWakeAt, cnpjs, results, completed, activeRequests, taskIndex, wk,
    providerFailures, providerCooldownUntil, nextAllowed, doneEvent, errorEvent,
    savedCache, reportFile, taken, obtained, netlog, activeWorker, activeJobId, created,
    workerData, ipcCalls, ipcPayload, ipcReply, sentEvents, stopPosts, parseInput,
    parseOutput, ui, hosts>>

\* App before any click: useState(false), useRef(null), useState([]); no
\* startJob call made, no reply and no job event handled.
AppMounted ==
  [running |-> FALSE, runningSessionRef |-> 0, sessions |-> <<>>, statusLabel |-> "Aguardando arquivo...",
   request |-> <<>>, invokes |-> 0, replies |-> 0, events |-> 0, ignored |-> 0]

maxRounds == 1 + Max(0, options.reprocessRounds)

total == Len(job.selectedRows)

(***************************************************************************)
(* processWorkbook: bookkeeping on its locals (the record j).              *)
(***************************************************************************)
\* The numbers of the progress arithmetic are IEEE-754 doubles.  A double
\* is kept as its count of units of 2^-57 in three limbs of 20 bits,
\* <<hi, mid, lo>> standing for (hi * 2^40 + mid * 2^20 + lo) / 2^57: this
\* holds 0 and every double of [2^-4, 16), which covers a sheet of up to 15
\* rows and up to 11 rounds.  The integer n is <<n * 2^17, 0, 0>>.
Pow2(k) == 2 ^ k

NumberOf(n) == <<n * Pow2(17), 0, 0>>

\* Math.floor(value)
MathFloor(value) == value[1] \div Pow2(17)

\* a < b.  (Here and below an operand is bound through a singleton set,
\* which makes TLC evaluate it once.)
NumberLess(a, b) ==
  \E x \in {a}, y \in {b} :
    \/ x[1] < y[1]
    \/ x[1] = y[1] /\ x[2] < y[2]
    \/ x[1] = y[1] /\ x[2] = y[2] /\ x[3] < y[3]

\* The limbs of hi * 2^40 + mid * 2^20 + lo with mid and lo below 2^20.
Carry(hi, mid, lo) ==
  LET mid1 == mid + lo \div Pow2(20)
  IN <<hi + mid1 \div Pow2(20), mid1 % Pow2(20), lo % Pow2(20)>>

\* The low bits that a double of this magnitude cannot hold: the leading
\* bit of the count is bit 52 + s, so its last s bits are rounded away.
DroppedBits(hi) ==
  IF hi < Pow2(13) THEN 0
  ELSE CHOOSE s \in 1..8 : Pow2(12 + s) <= hi /\ hi < Pow2(13 + s)

\* Rounding to nearest, ties to even, of an exact result x; sticky tells
\* that the exact result lies strictly above x (the remainder of a division).
RoundNumber(x, sticky) ==
  CHOOSE r \in
    { LET s == DroppedBits(v[1])
          low == v[3] % Pow2(s)
          kept == v[3] - low
          half == Pow2(s) \div 2
          odd == (v[3] \div Pow2(s)) % 2 = 1
          up == low > half \/ (low = half /\ (sticky \/ odd))
      IN IF s = 0 THEN v
         ELSE IF up THEN Carry(v[1], v[2], kept + Pow2(s))
         ELSE <<v[1], v[2], kept>> : v \in {x} } : TRUE

\* a + b
NumberAdd(a, b) ==
  CHOOSE r \in { RoundNumber(Carry(x[1] + y[1], x[2] + y[2], x[3] + y[3]), FALSE) :
                   x \in {a}, y \in {b} } : TRUE

\* n / d for integers n >= 0 and d > 0.
NumberDiv(n, d) ==
  CHOOSE r \in
    { LET top == m * Pow2(17)
          r1 == top % e
          r2 == (r1 * Pow2(20)) % e
          r3 == (r2 * Pow2(20)) % e
      IN RoundNumber(<<top \div e, (r1 * Pow2(20)) \div e, (r2 * Pow2(20)) \div e>>,
                     r3 # 0) : m \in {n}, e \in {d} } : TRUE

\* n * x for an integer n >= 0.
NumberTimes(n, x) ==
  CHOOSE r \in { RoundNumber(Carry(m * v[1], m * v[2], m * v[3]), FALSE) :
                   m \in {n}, v \in {x} } : TRUE

\* reportVisualProgress(value)
\* Variant of reportVisualProgress that posts every value, repeated or not.
reportVisualProgressAlways(j, value) ==
  LET done == Max(0, Min(Len(j.selectedRows), MathFloor(value)))
  IN [j EXCEPT !.reportedProgress = done, !.posted = Append(@, done)]

reportVisualProgress(j, value) ==
  LET done == Max(0, Min(Len(j.selectedRows), MathFloor(value)))
  IN IF done <= j.reportedProgress THEN j
     ELSE [j EXCEPT !.reportedProgress = done, !.posted = Append(@, done)]

reportProcessedProgress(j) ==
  LET j1 == IF NumberLess(j.visualProgress, NumberOf(j.processed))
            THEN [j EXCEPT !.visualProgress = NumberOf(j.processed)]
            ELSE j
  IN reportVisualProgress(j1, j1.visualProgress)

addReportRow(j, row, cnpjRaw, cnpjClean, status, origin, provider, detail) ==
  [j EXCEPT !.detailedRows =
     Append(@, [linha |-> RowToText(row), cnpj_original |-> cnpjRaw,
                cnpj_limpo |-> cnpjClean, resultado |-> status, origem |-> origin,
                provedor |-> provider, detalhe |-> detail])]

setSheetValue(j, row, value) ==
  [j EXCEPT !.sheetOut = [@ EXCEPT ![row] = Append(@, value)]]

\* rowsByCnpj and the insertion order of its keys.
RECURSIVE GroupRows(_, _, _)
GroupRows(items, groups, order) ==
  IF items = <<>> THEN [groups |-> groups, order |-> order]
  ELSE LET item == Head(items)
           cnpj == sanitizeCnpj(item.cnpjRaw)
       IN IF cnpj = <<>> THEN GroupRows(Tail(items), groups, order)
          ELSE IF cnpj \in DOMAIN groups
            THEN GroupRows(Tail(items), [groups EXCEPT ![cnpj] = Append(@, item.row)], order)
          ELSE GroupRows(Tail(items), groups @@ (cnpj :> <<item.row>>), Append(order, cnpj))

\* Invalid rows counted as processed and in no other counter.
RECURSIVE ProcessInvalidRowsUncounted(_, _)
ProcessInvalidRowsUncounted(j, items) ==
  IF items = <<>> THEN j
  ELSE LET item == Head(items)
           j1 == setSheetValue(j, item.row, "CNPJ_INVALIDO")
           j2 == [j1 EXCEPT !.processed = @ + 1]
           j3 == addReportRow(j2, item.row, item.cnpjRaw, <<>>, "CNPJ_INVALIDO",
                              "VALIDACAO", "VALIDACAO", <<"CNPJ invalido">>)
       IN ProcessInvalidRowsUncounted(reportProcessedProgress(j3), Tail(items))

\* for (const item of invalidRows) { ... }
RECURSIVE ProcessInvalidRows(_, _)
ProcessInvalidRows(j, items) ==
  IF items = <<>> THEN j
  ELSE LET item == Head(items)
           j1 == setSheetValue(j, item.row, "CNPJ_INVALIDO")
           j2 == [j1 EXCEPT !.processed = @ + 1, !.invalidCount = @ + 1]
           j3 == addReportRow(j2, item.row, item.cnpjRaw, <<>>, "CNPJ_INVALIDO",
                              "VALIDACAO", "VALIDACAO", <<"CNPJ invalido">>)
       IN ProcessInvalidRows(reportProcessedProgress(j3), Tail(items))

\* for (const row of rows) { setSheetValue(...); addReportRow(...); }
\* Variant of WriteRows that reports the rows after the first one as copies
\* of the first.
RECURSIVE WriteRowsFirstThenCopies(_, _, _, _, _, _, _, _)
WriteRowsFirstThenCopies(j, rows, cnpj, status, origin, provider, detail, setCell) ==
  IF rows = <<>> THEN j
  ELSE LET row == Head(rows)
           j1 == IF setCell THEN setSheetValue(j, row, status) ELSE j
           j2 == addReportRow(j1, row, j.cnpjOriginalByRow[row], cnpj, status, origin,
                              provider, detail)
       IN WriteRowsFirstThenCopies(j2, Tail(rows), cnpj, status, "REPETIDO", provider,
                                   detail, setCell)

RECURSIVE WriteRows(_, _, _, _, _, _, _, _)
WriteRows(j, rows, cnpj, status, origin, provider, detail, setCell) ==
  IF rows = <<>> THEN j
  ELSE LET row == Head(rows)
           j1 == IF setCell THEN setSheetValue(j, row, status) ELSE j
           j2 == addReportRow(j1, row, j.cnpjOriginalByRow[row], cnpj, status, origin,
                              provider, detail)
       IN WriteRows(j2, Tail(rows), cnpj, status, origin, provider, detail, setCell)

CachedStatus(cache, cnpj) == IF cnpj \in DOMAIN cache THEN cache[cnpj] ELSE "undefined"

\* Variant of IsCacheHit that trusts only the SIM entries of the cache.
IsCacheHitSimOnly(cache, cnpj) == CachedStatus(cache, cnpj) = "SIM"

IsCacheHit(cache, cnpj) == CachedStatus(cache, cnpj) \in {"SIM", "NAO"}

\* for (const [cnpj, rows] of rowsByCnpj.entries()) { cache hit ... }
RECURSIVE ProcessCacheHits(_, _)
ProcessCacheHits(j, order) ==
  IF order = <<>> THEN j
  ELSE LET cnpj == Head(order)
           rows == j.rowsByCnpj[cnpj]
           cachedStatus == CachedStatus(j.cache, cnpj)
       IN IF IsCacheHit(j.cache, cnpj)
          THEN LET j1 == WriteRows(j, rows, cnpj, cachedStatus, "CACHE", "CACHE",
                                   <<"valor em cache">>, TRUE)
                   j2 == [j1 EXCEPT !.processed = @ + Len(rows),
                                    !.success = @ + Len(rows),
                                    !.cacheHits = @ + Len(rows),
                                    !.outcomeByCnpj =
                                      @ @@ (cnpj :> Outcome(cachedStatus, <<"valor em cache">>, "CACHE"))]
               IN ProcessCacheHits(reportProcessedProgress(j2), Tail(order))
          ELSE ProcessCacheHits(j, Tail(order))

\* pendingCnpjs after the cache partition.
PendingAfterPrepare(j) == {cnpj \in DOMAIN j.rowsByCnpj : ~IsCacheHit(j.cache, cnpj)}

SelectedRows(maxRows) ==
  IF maxRows.isNull THEN rowData
  ELSE SubSeq(rowData, 1, Min(Max(maxRows.n, 0), Len(rowData)))

EmptyJob ==
  [selectedRows |-> <<>>, cnpjOriginalByRow |-> <<>>, rowsByCnpj |-> <<>>,
   cnpjOrder |-> <<>>, cache |-> <<>>, detailedRows |-> <<>>, outcomeByCnpj |-> <<>>,
   sheetOut |-> [r \in 2..(Len(SheetCells) + 1) |-> <<>>],
   processed |-> 0, success |-> 0, semDadoCount |-> 0, erroCount |-> 0,
   invalidCount |-> 0, cacheHits |-> 0, visualProgress |-> NumberOf(0), reportedProgress |-> 0,
   posted |-> <<>>, attemptsByCnpj |-> <<>>, roundSeen |-> {}]

\* processWorkbook up to the round loop: select the rows, post progress(0, total),
\* load the cache, report the invalid rows and the cache hits.
PrepareJob ==
  LET selectedRows == SelectedRows(options.maxRows)
      grouped == GroupRows(selectedRows, <<>>, <<>>)
      invalidRows == SelectSeq(selectedRows, LAMBDA item : sanitizeCnpj(item.cnpjRaw) = <<>>)
      j0 == [EmptyJob EXCEPT
               !.selectedRows = selectedRows,
               !.posted = <<0>>,
               !.cache = loadCache(cacheFile),
               !.cnpjOriginalByRow =
                  [r \in {selectedRows[i].row : i \in 1..Len(selectedRows)} |->
                     (CHOOSE item \in Range(selectedRows) : item.row = r).cnpjRaw],
               !.rowsByCnpj = grouped.groups,
               !.cnpjOrder = grouped.order]
      j1 == ProcessInvalidRows(j0, invalidRows)
      j2 == ProcessCacheHits(j1, j1.cnpjOrder)
  IN [j2 EXCEPT !.attemptsByCnpj = [cnpj \in PendingAfterPrepare(j2) |-> 0]]

\* onRoundProgress(cnpj)
onRoundProgress(j, cnpj) ==
  IF cnpj \in j.roundSeen THEN j
  ELSE LET j1 == [j EXCEPT !.roundSeen = @ \cup {cnpj}]
           rowWeight == IF cnpj \in DOMAIN j.rowsByCnpj THEN Len(j.rowsByCnpj[cnpj]) ELSE 0
           spent == IF cnpj \in DOMAIN j.attemptsByCnpj THEN j.attemptsByCnpj[cnpj] ELSE 0
           attempts == Min(maxRounds, spent + 1)
       IN IF rowWeight <= 0 THEN j1
          ELSE LET j2 == [j1 EXCEPT !.attemptsByCnpj = (cnpj :> attempts) @@ @,
                                    !.visualProgress = NumberAdd(@, NumberDiv(rowWeight, maxRounds))]
               IN reportVisualProgress(j2, j2.visualProgress)

\* The remaining round weight of an identifier, credited when it is finalized.
CreditRemaining(j, cnpj, nRows) ==
  LET spentAttempts == IF cnpj \in DOMAIN j.attemptsByCnpj THEN j.attemptsByCnpj[cnpj] ELSE 0
      remainingAttempts == Max(0, maxRounds - spentAttempts)
  IN IF remainingAttempts > 0
     THEN LET j1 == [j EXCEPT !.visualProgress =
                                  NumberAdd(@, NumberTimes(nRows,
                                                           NumberDiv(remainingAttempts, maxRounds))),
                              !.attemptsByCnpj = (cnpj :> maxRounds) @@ @]
          IN reportVisualProgress(j1, j1.visualProgress)
     ELSE j

\* A definitive outcome of the round: rows written, cache entry set.
\* Variant of ResolveCnpj that leaves the cache as it was.
ResolveCnpjNoCache(j, cnpj, outcome) ==
  LET rows == j.rowsByCnpj[cnpj]
      j1 == WriteRows(j, rows, cnpj, outcome.status, "API", outcome.provider,
                      outcome.detail, TRUE)
      j2 == [j1 EXCEPT !.processed = @ + Len(rows),
                       !.success = @ + Len(rows),
                       !.outcomeByCnpj = (cnpj :> outcome) @@ @]
  IN reportProcessedProgress(CreditRemaining(j2, cnpj, Len(rows)))

ResolveCnpj(j, cnpj, outcome) ==
  LET rows == j.rowsByCnpj[cnpj]
      j1 == WriteRows(j, rows, cnpj, outcome.status, "API", outcome.provider,
                      outcome.detail, TRUE)
      j2 == [j1 EXCEPT !.cache = (cnpj :> outcome.status) @@ @,
                       !.processed = @ + Len(rows),
                       !.success = @ + Len(rows),
                       !.outcomeByCnpj = (cnpj :> outcome) @@ @]
  IN reportProcessedProgress(CreditRemaining(j2, cnpj, Len(rows)))

\* A soft error that is not retried: the identifier is finalized.
\* Variant of FinalizeCnpj with the two final statuses exchanged.
FinalizeCnpjSwapped(j, cnpj, outcome) ==
  LET rows == j.rowsByCnpj[cnpj]
      finalStatus == IF outcome.status = "ERRO" THEN "NAO" ELSE "ERRO"
      j1 == WriteRows(j, rows, cnpj, finalStatus, "API", outcome.provider,
                      outcome.detail, TRUE)
      j2 == [j1 EXCEPT !.processed = @ + Len(rows),
                       !.outcomeByCnpj =
                          (cnpj :> Outcome(finalStatus, outcome.detail, outcome.provider)) @@ @]
      j3 == CreditRemaining(j2, cnpj, Len(rows))
      j4 == IF finalStatus = "ERRO"
            THEN [j3 EXCEPT !.erroCount = @ + Len(rows)]
            ELSE [j3 EXCEPT !.semDadoCount = @ + Len(rows)]
  IN reportProcessedProgress(j4)

\* Variant of FinalizeCnpj that finalizes every identifier as NAO.
FinalizeCnpjAsNao(j, cnpj, outcome) ==
  LET rows == j.rowsByCnpj[cnpj]
      j1 == WriteRows(j, rows, cnpj, "NAO", "API", outcome.provider, outcome.detail, TRUE)
      j2 == [j1 EXCEPT !.processed = @ + Len(rows),
                       !.semDadoCount = @ + Len(rows),
                       !.outcomeByCnpj =
                          (cnpj :> Outcome("NAO", outcome.detail, outcome.provider)) @@ @]
  IN reportProcessedProgress(CreditRemaining(j2, cnpj, Len(rows)))

FinalizeCnpj(j, cnpj, outcome) ==
  LET rows == j.rowsByCnpj[cnpj]
      finalStatus == IF outcome.status = "ERRO" THEN "ERRO" ELSE "NAO"
      j1 == WriteRows(j, rows, cnpj, finalStatus, "API", outcome.provider,
                      outcome.detail, TRUE)
      j2 == [j1 EXCEPT !.processed = @ + Len(rows),
                       !.outcomeByCnpj =
                          (cnpj :> Outcome(finalStatus, outcome.detail, outcome.provider)) @@ @]
      j3 == CreditRemaining(j2, cnpj, Len(rows))
      j4 == IF finalStatus = "ERRO"
            THEN [j3 EXCEPT !.erroCount = @ + Len(rows)]
            ELSE [j3 EXCEPT !.semDadoCount = @ + Len(rows)]
  IN reportProcessedProgress(j4)

\* Whether a soft error of this round is queued for the next round.
\* Variant of RetryLater that queues the soft errors of the last round too.
RetryLaterAnyRound(outcome) == outcome.status = "ERRO" /\ ~stopRequested

RetryLater(outcome) ==
  outcome.status = "ERRO" /\ roundIndex < maxRounds /\ ~stopRequested

\* for (const cnpj of roundList) { ... } after the round; r = [j, next].
\* Variant of ProcessRound that also reports the soft error it queues for
\* the next round.
RECURSIVE ProcessRoundReportsRetries(_, _)
ProcessRoundReportsRetries(r, list) ==
  IF list = <<>> THEN r
  ELSE LET cnpj == Head(list)
       IN IF cnpj \notin DOMAIN results
            THEN ProcessRoundReportsRetries([r EXCEPT !.next = @ \cup {cnpj}], Tail(list))
          ELSE IF results[cnpj].status \in {"SIM", "NAO"}
            THEN ProcessRoundReportsRetries(
                   [r EXCEPT !.j = ResolveCnpj(@, cnpj, results[cnpj])], Tail(list))
          ELSE IF RetryLater(results[cnpj])
            THEN ProcessRoundReportsRetries(
                   [r EXCEPT !.j = FinalizeCnpj(@, cnpj, results[cnpj]),
                             !.next = @ \cup {cnpj}], Tail(list))
          ELSE ProcessRoundReportsRetries(
                 [r EXCEPT !.j = FinalizeCnpj(@, cnpj, results[cnpj])], Tail(list))

\* Variant of ProcessRound that keeps the identifiers it resolved in the
\* pending set.
RECURSIVE ProcessRoundKeepsResolved(_, _)
ProcessRoundKeepsResolved(r, list) ==
  IF list = <<>> THEN r
  ELSE LET cnpj == Head(list)
       IN IF cnpj \notin DOMAIN results
            THEN ProcessRoundKeepsResolved([r EXCEPT !.next = @ \cup {cnpj}], Tail(list))
          ELSE IF results[cnpj].status \in {"SIM", "NAO"}
            THEN ProcessRoundKeepsResolved(
                   [r EXCEPT !.j = ResolveCnpj(@, cnpj, results[cnpj]),
                             !.next = @ \cup {cnpj}], Tail(list))
          ELSE IF RetryLater(results[cnpj])
            THEN ProcessRoundKeepsResolved([r EXCEPT !.next = @ \cup {cnpj}], Tail(list))
          ELSE ProcessRoundKeepsResolved(
                 [r EXCEPT !.j = FinalizeCnpj(@, cnpj, results[cnpj])], Tail(list))

RECURSIVE ProcessRound(_, _)
ProcessRound(r, list) ==
  IF list = <<>> THEN r
  ELSE LET cnpj == Head(list)
       IN IF cnpj \notin DOMAIN results
            THEN ProcessRound([r EXCEPT !.next = @ \cup {cnpj}], Tail(list))
          ELSE IF results[cnpj].status \in {"SIM", "NAO"}
            THEN ProcessRound([r EXCEPT !.j = ResolveCnpj(@, cnpj, results[cnpj])], Tail(list))
          ELSE IF RetryLater(results[cnpj])
            THEN ProcessRound([r EXCEPT !.next = @ \cup {cnpj}], Tail(list))
          ELSE ProcessRound([r EXCEPT !.j = FinalizeCnpj(@, cnpj, results[cnpj])], Tail(list))

\* if (!interrupted && pendingCnpjs.size > 0) { ... }
RECURSIVE ForceFinalize(_, _)
ForceFinalize(j, list) ==
  IF list = <<>> THEN j
  ELSE LET cnpj == Head(list)
           rows == j.rowsByCnpj[cnpj]
           detail == <<"sem retorno apos reprocessamento">>
           j1 == WriteRows(j, rows, cnpj, "ERRO", "REPROCESSAMENTO_FINAL", "fallback",
                           detail, TRUE)
           j2 == [j1 EXCEPT !.processed = @ + Len(rows),
                            !.erroCount = @ + Len(rows),
                            !.outcomeByCnpj = (cnpj :> Outcome("ERRO", detail, "fallback")) @@ @]
       IN ForceFinalize(reportProcessedProgress(j2), Tail(list))

\* if (interrupted && pendingCnpjs.size > 0) { ... }
\* Variant of MarkPending that reports nothing for the pending identifiers.
MarkPendingSkip(j, list) == j

\* Variant of MarkPending that finalizes the pending identifiers as ERRO.
MarkPendingAsErro(j, list) == ForceFinalize(j, list)

RECURSIVE MarkPending(_, _)
MarkPending(j, list) ==
  IF list = <<>> THEN j
  ELSE MarkPending(
         WriteRows(j, j.rowsByCnpj[Head(list)], Head(list), "PENDENTE", "INTERRUPCAO",
                   "NAO_CONCLUIDO", <<"processamento interrompido antes da conclusao">>,
                   FALSE),
         Tail(list))

\* [...entries].sort((a, b) => parseInt(a.linha) - parseInt(b.linha)): a stable sort.
RECURSIVE SortReport(_)
SortReport(entries) ==
  IF entries = <<>> THEN <<>>
  ELSE LET sorted == SortReport(SubSeq(entries, 1, Len(entries) - 1))
           e == entries[Len(entries)]
           before == SelectSeq(sorted, LAMBDA x : ParseRow(x.linha) <= ParseRow(e.linha))
           after == SelectSeq(sorted, LAMBDA x : ParseRow(x.linha) > ParseRow(e.linha))
       IN before \o <<e>> \o after

\* The tail of processWorkbook: pending identifiers, final progress, result.
FinishJob(j) ==
  LET list == SortCnpjs(pendingCnpjs)
      j1 == IF ~interrupted /\ pendingCnpjs # {} THEN ForceFinalize(j, list) ELSE j
      j2 == IF interrupted /\ pendingCnpjs # {} THEN MarkPending(j1, list) ELSE j1
  IN IF interrupted THEN j2
     ELSE reportVisualProgress(j2, NumberOf(Len(j2.selectedRows)))

\* Variant of ProcessResult that never raises the interrupted flag.
ProcessResultNoFlag(j) ==
  [processed |-> j.processed, total |-> Len(j.selectedRows), success |-> j.success,
   failed |-> j.invalidCount + j.erroCount + j.semDadoCount,
   semDado |-> j.semDadoCount, erro |-> j.erroCount, invalid |-> j.invalidCount,
   interrupted |-> FALSE]

ProcessResult(j) ==
  [processed |-> j.processed, total |-> Len(j.selectedRows), success |-> j.success,
   failed |-> j.invalidCount + j.erroCount + j.semDadoCount,
   semDado |-> j.semDadoCount, erro |-> j.erroCount, invalid |-> j.invalidCount,
   interrupted |-> interrupted]

(***************************************************************************)
(* queryCnpjsParallel and consultarSimples.                                *)
(***************************************************************************)
NewWorker ==
  [pc |-> "loop", cnpj |-> <<>>, idx |-> 0, errors |-> <<>>, calls |-> <<>>,
   attempt |-> 0, lastError |-> "", wakeAt |-> 0]

\* numWorkers = Math.max(1, Math.min(workers, cnpjs.length || 1))
\* Variant of NumWorkers that starts one worker per identifier.
NumWorkersPerTask(workers, listLength) ==
  Max(1, Max(workers, IF listLength = 0 THEN 1 ELSE listLength))

NumWorkers(workers, listLength) ==
  Max(1, Min(workers, IF listLength = 0 THEN 1 ELSE listLength))

Workers == DOMAIN wk

ClientVars == <<providerFailures, providerCooldownUntil, nextAllowed, netlog>>

MainVars == <<pcMain, roundIndex, pendingCnpjs, interrupted, mainWakeAt, doneEvent,
              errorEvent, savedCache, reportFile>>

\* The state of the main process.
MainProcessVars ==
  <<activeWorker, activeJobId, created, workerData, ipcCalls, ipcPayload, ipcReply,
    sentEvents, stopPosts>>

InputVars == <<options, cacheFile, MainProcessVars, parseInput, parseOutput, ui, hosts>>

\* getNextTask(): null when the list is exhausted, else the identifier at
\* taskIndex and the advanced index.
HasNextTask == taskIndex < Len(cnpjs)

\* Variant of getNextTask that leaves taskIndex where it was.
getNextTaskNoAdvance == [cnpj |-> cnpjs[taskIndex + 1], taskIndex |-> taskIndex]

getNextTask == [cnpj |-> cnpjs[taskIndex + 1], taskIndex |-> taskIndex + 1]

\* errors.slice(0, 4).map((item) => item.detail).join(' | ')
\* Variant of JoinDetails that joins the details from the last one to the first.
RECURSIVE JoinDetailsReversed(_)
JoinDetailsReversed(errors) ==
  IF errors = <<>> THEN <<>>
  ELSE IF Len(errors) = 1 THEN errors[1].detail
  ELSE JoinDetailsReversed(Tail(errors)) \o <<"|">> \o errors[1].detail

RECURSIVE JoinDetails(_)
JoinDetails(errors) ==
  IF errors = <<>> THEN <<>>
  ELSE IF Len(errors) = 1 THEN errors[1].detail
  ELSE errors[1].detail \o <<"|">> \o JoinDetails(Tail(errors))

FallbackOutcome(errors) ==
  Outcome("ERRO",
          IF Len(errors) > 0
          THEN JoinDetails(SubSeq(errors, 1, Min(Len(PROVIDERS_FALLBACK), Len(errors))))
          ELSE <<"falha sem detalhe">>,
          "fallback")

\* The finally block of workerLoop.
WorkerFinally(w) ==
  /\ activeRequests' = Max(activeRequests - 1, 0)
  /\ completed' = completed + 1
  /\ job' = onRoundProgress(job, wk[w].cnpj)

\* consultarSimples returned `outcome`: results.set(cnpj, outcome), finally, loop.
Conclude(w, outcome, calls) ==
  /\ results' = (wk[w].cnpj :> outcome) @@ results
  /\ obtained' = obtained \cup {[cnpj |-> wk[w].cnpj, outcome |-> outcome, calls |-> calls]}
  /\ wk' = [wk EXCEPT ![w] = [NewWorker EXCEPT !.pc = "loop"]]
  /\ WorkerFinally(w)

\* consultarSimples threw StopRequestedError: workerLoop returns after finally.
WorkerStopped(w) ==
  /\ wk' = [wk EXCEPT ![w] = [NewWorker EXCEPT !.pc = "exit"]]
  /\ WorkerFinally(w)
  /\ UNCHANGED <<results, obtained>>

\* Whether the fallback loop returns this provider outcome at once.
\* Variant of IsDefinitive that stops the chain on SIM only.
IsDefinitiveSimOnly(outcome) == outcome.status = "SIM"

IsDefinitive(outcome) == outcome.status \in {"SIM", "NAO"}

\* The provider function returned `outcome` to the loop of consultarSimples.
AfterProvider(w, outcome) ==
  LET calls == [wk[w].calls EXCEPT ![Len(wk[w].calls)].status = outcome.status]
      errors == Append(wk[w].errors, outcome)
  IN IF IsDefinitive(outcome) THEN Conclude(w, outcome, calls)
     ELSE IF wk[w].idx < Len(PROVIDERS_FALLBACK)
       THEN /\ wk' = [wk EXCEPT ![w].pc = "chain", ![w].idx = @ + 1,
                                ![w].errors = errors, ![w].calls = calls,
                                ![w].attempt = 0, ![w].lastError = "", ![w].wakeAt = 0]
            /\ UNCHANGED <<results, obtained, activeRequests, completed, job>>
     ELSE Conclude(w, FallbackOutcome(errors), calls)

\* workerLoop: top of the loop.
WorkerLoop(w) ==
  /\ pcMain = "round"
  /\ w \in Workers
  /\ wk[w].pc = "loop"
  /\ IF stopRequested \/ ~HasNextTask
     THEN /\ wk' = [wk EXCEPT ![w].pc = "exit"]
          /\ UNCHANGED <<taskIndex, activeRequests, taken>>
     ELSE /\ wk' = [wk EXCEPT ![w].pc = "chain", ![w].cnpj = getNextTask.cnpj,
                              ![w].idx = 1]
          /\ taskIndex' = getNextTask.taskIndex
          /\ activeRequests' = activeRequests + 1
          /\ taken' = Append(taken, getNextTask.cnpj)
  /\ UNCHANGED <<InputVars, MainVars, ClientVars, stopRequested, now, job, cnpjs, results,
                 completed, obtained>>

\* consultarSimples: top of the provider loop, up to the provider's requestJson.
ChainStep(w) ==
  /\ pcMain = "round"
  /\ w \in Workers
  /\ wk[w].pc = "chain"
  /\ IF stopRequested
     THEN WorkerStopped(w)
     ELSE /\ wk' = [wk EXCEPT ![w].pc = "request", ![w].attempt = 1,
                              ![w].calls = Append(@, [provider |-> PROVIDERS_FALLBACK[wk[w].idx],
                                                      status |-> "called"])]
          /\ UNCHANGED <<results, obtained, activeRequests, completed, job>>
  /\ UNCHANGED <<InputVars, MainVars, ClientVars, stopRequested, now, cnpjs, taskIndex, taken>>

\* What requestJson can return, seen from its caller.
RequestResults(providerName) ==
  {JsonOk(PayloadOptante), JsonOk(PayloadEmpty), JsonErr(<<providerName, "falha">>)}

\* requestJson as a whole: it returns a payload or an error at some later
\* time, or throws StopRequestedError once stop has been requested.  After
\* the stop no payload is returned (the stop handler aborts the request);
\* an error still can be (the body read that fails, the last backoff).
RequestJsonReturns(w) ==
  /\ pcMain = "round"
  /\ w \in Workers
  /\ wk[w].pc = "request"
  /\ \/ \E res \in RequestResults(PROVIDERS_FALLBACK[wk[w].idx]) :
          /\ stopRequested => ~res.ok
          /\ AfterProvider(w, consultarProvider(PROVIDERS_FALLBACK[wk[w].idx], res))
     \/ stopRequested /\ WorkerStopped(w)
  /\ UNCHANGED <<InputVars, MainVars, ClientVars, stopRequested, now, cnpjs, taskIndex, taken>>

(***************************************************************************)
(* SimplesApiClient.requestJson, step by step.  A worker inside it is at   *)
(* "request" (top of an attempt), "waitTurn" (the limiter's timer),        *)
(* "fetch" (awaiting the response), "body" (awaiting response.json()) or   *)
(* "backoff" (sleepInterruptible between two attempts).                    *)
(***************************************************************************)
ProviderOf(w) == PROVIDERS_FALLBACK[wk[w].idx]

\* The interval of waitTurn, in ms.
waitTurnInterval(provider) ==
  Max((Max(options.delayMs, MIN_DELAY_MS) * PROVIDER_RATE_FACTORS[provider]) \div 10,
      MIN_DELAY_MS)

\* Variant of waitTurnReserve that stores the time of the call.
waitTurnReserveNow(provider) == [nextAllowed EXCEPT ![provider] = now]

\* waitTurn: this.nextAllowed.set(provider, now + interval * 1000)
waitTurnReserve(provider) ==
  [nextAllowed EXCEPT ![provider] = now + waitTurnInterval(provider)]

\* providerCooldownRemaining, in ms.
providerCooldownRemaining(providerName) ==
  IF providerCooldownUntil[providerName] <= now THEN 0
  ELSE providerCooldownUntil[providerName] - now

\* recordProviderSuccess: the counter set to 0 and the cooldown entry
\* deleted (an absent entry reads as 0).
\* Variant of recordProviderSuccess that resets the counter of every provider.
recordProviderSuccessAll(providerName) ==
  [failures |-> [p \in ProviderNames |-> 0],
   cooldownUntil |-> [providerCooldownUntil EXCEPT ![providerName] = 0]]

recordProviderSuccess(providerName) ==
  [failures |-> [providerFailures EXCEPT ![providerName] = 0],
   cooldownUntil |-> [providerCooldownUntil EXCEPT ![providerName] = 0]]

\* recordProviderFailure: the new counters, and whether the cooldown started.
recordProviderFailure(providerName) ==
  LET failures == providerFailures[providerName] + 1
  IN IF failures >= PROVIDER_FAILURE_THRESHOLD
     THEN [failures |-> [providerFailures EXCEPT ![providerName] = 0],
           cooldownUntil |-> [providerCooldownUntil EXCEPT
                                ![providerName] = now + PROVIDER_COOLDOWN_MS],
           cooldown |-> TRUE]
     ELSE [failures |-> [providerFailures EXCEPT ![providerName] = failures],
           cooldownUntil |-> providerCooldownUntil,
           cooldown |-> FALSE]

\* The request is sent: history of the dispatches of the provider.
Dispatched(providerName) ==
  LET log == netlog[providerName]
      gap == now - log.last
  IN [netlog EXCEPT ![providerName] =
        [count |-> Min(log.count + 1, 2),
         last |-> now,
         minGap |-> IF log.count = 0 THEN 0
                    ELSE IF log.count = 1 THEN gap ELSE Min(log.minGap, gap),
         paused |-> Max(log.paused, providerCooldownRemaining(providerName))]]

\* The worker stays inside requestJson.
StayInRequest(w, pc, wakeAt) ==
  /\ wk' = [wk EXCEPT ![w].pc = pc, ![w].wakeAt = wakeAt]
  /\ UNCHANGED <<results, obtained, activeRequests, completed, job>>

\* requestJson returns [null, message] to the provider function.
ReturnError(w, message) ==
  AfterProvider(w, consultarProvider(ProviderOf(w), JsonErr(<<ProviderOf(w)>> \o message)))

\* How long the host takes to answer, in ms (at most the 8 s after which the
\* timeout aborts the request).
LatencyChoices == {0}

\* waitTurn once the stop flag was seen clear: reserve and send, or sleep
\* until the instant read from nextAllowed (the 250 ms naps in between only
\* look at the stop flag).
WaitTurnCheck(w) ==
  IF now >= nextAllowed[ProviderOf(w)]
  THEN /\ nextAllowed' = waitTurnReserve(ProviderOf(w))
       /\ netlog' = Dispatched(ProviderOf(w))
       /\ \E latency \in LatencyChoices : StayInRequest(w, "fetch", now + latency)
  ELSE /\ StayInRequest(w, "waitTurn", nextAllowed[ProviderOf(w)])
       /\ UNCHANGED <<nextAllowed, netlog>>

\* Top of an attempt: stop check, cooldown check, waitTurn.
RequestAttempt(w) ==
  /\ pcMain = "round"
  /\ w \in Workers
  /\ wk[w].pc = "request"
  /\ IF stopRequested
     THEN WorkerStopped(w) /\ UNCHANGED <<nextAllowed, netlog>>
     ELSE IF providerCooldownRemaining(ProviderOf(w)) > 0
       THEN /\ ReturnError(w, <<"provedor pausado">>
                                \o RowToText(providerCooldownRemaining(ProviderOf(w)) \div 1000))
            /\ UNCHANGED <<nextAllowed, netlog>>
     ELSE WaitTurnCheck(w)
  /\ UNCHANGED <<InputVars, MainVars, providerFailures, providerCooldownUntil, stopRequested,
                 now, cnpjs, taskIndex, taken>>

\* The timer of waitTurn fired.
WaitTurnWake(w) ==
  /\ pcMain = "round"
  /\ w \in Workers
  /\ wk[w].pc = "waitTurn"
  /\ stopRequested \/ now >= wk[w].wakeAt
  /\ IF stopRequested
     THEN WorkerStopped(w) /\ UNCHANGED <<nextAllowed, netlog>>
     ELSE WaitTurnCheck(w)
  /\ UNCHANGED <<InputVars, MainVars, providerFailures, providerCooldownUntil, stopRequested,
                 now, cnpjs, taskIndex, taken>>

\* A failure that is retried: cooldown message, or sleepInterruptible.
FailAndRetry(w, lastError, pausedMessage) ==
  LET rec == recordProviderFailure(ProviderOf(w))
  IN /\ providerFailures' = rec.failures
     /\ providerCooldownUntil' = rec.cooldownUntil
     /\ IF rec.cooldown
        THEN ReturnError(w, <<pausedMessage>>)
        ELSE /\ wk' = [wk EXCEPT ![w].pc = "backoff", ![w].lastError = lastError,
                                 ![w].wakeAt = now + Min(2 * wk[w].attempt,
                                                         BACKOFF_CAP_SECONDS) * 1000]
             /\ UNCHANGED <<results, obtained, activeRequests, completed, job>>

\* A failure that is not retried.
FailAndReturn(w, message, pausedMessage) ==
  LET rec == recordProviderFailure(ProviderOf(w))
  IN /\ providerFailures' = rec.failures
     /\ providerCooldownUntil' = rec.cooldownUntil
     /\ ReturnError(w, <<IF rec.cooldown THEN pausedMessage ELSE message>>)

\* The behaviours of the four hosts in the scenario: status codes of the
\* responses, whether a request can fail on the network, and what the body
\* of a 200 response can be.
StatusPool ==
  [receitaws |-> {200, 429, 500}, minhareceita |-> {200}, brasilapi |-> {200},
   cnpjws |-> {200, 404}]

RejectPool == {"minhareceita"}

BodyPool ==
  [receitaws |-> {JObj(PayloadOptante)},
   minhareceita |-> {JObj(PayloadEmpty)},
   brasilapi |-> {JObj(PayloadRegime), [t |-> "invalid"]},
   cnpjws |-> {JObj(PayloadAppError), JArr(<<>>)}]

\* The hosts of the scenario with two workers.
DefaultHosts == [status |-> StatusPool, reject |-> RejectPool, body |-> BodyPool]

\* The hosts of the scenario where every provider fails softly: receitaws in
\* every way it can, the other three with HTTP 404.
SoftHosts ==
  [status |-> [receitaws |-> {200, 404, 429, 500}, minhareceita |-> {404},
               brasilapi |-> {404}, cnpjws |-> {404}],
   reject |-> {"receitaws"},
   body |-> [receitaws |-> {JObj(PayloadAppError), [t |-> "invalid"], JArr(<<>>)},
             minhareceita |-> {}, brasilapi |-> {}, cnpjws |-> {}]]

\* fetch resolved with a response.
\* Variant of FetchResponse that counts a status such as 404 as a failure.
FetchResponseCountsAnyStatus(w) ==
  /\ pcMain = "round"
  /\ w \in Workers
  /\ wk[w].pc = "fetch"
  /\ ~stopRequested
  /\ now >= wk[w].wakeAt
  /\ \E status \in hosts.status[ProviderOf(w)] :
       CASE status = 429 ->
              FailAndReturn(w, "limite de requisicoes (429)",
                            "pausado por 45s por limite de requisicoes (429)")
         [] status >= 500 ->
              FailAndRetry(w, "erro no servidor",
                           "pausado por 45s por erros consecutivos no servidor")
         [] status = 200 ->
              /\ StayInRequest(w, "body", wk[w].wakeAt)
              /\ UNCHANGED <<providerFailures, providerCooldownUntil>>
         [] OTHER ->
              /\ providerFailures' = recordProviderFailure(ProviderOf(w)).failures
              /\ providerCooldownUntil' = recordProviderFailure(ProviderOf(w)).cooldownUntil
              /\ ReturnError(w, <<"HTTP", "404">>)
  /\ UNCHANGED <<InputVars, MainVars, nextAllowed, netlog, stopRequested, now, cnpjs,
                 taskIndex, taken>>

FetchResponse(w) ==
  /\ pcMain = "round"
  /\ w \in Workers
  /\ wk[w].pc = "fetch"
  /\ ~stopRequested
  /\ now >= wk[w].wakeAt
  /\ \E status \in hosts.status[ProviderOf(w)] :
       CASE status = 429 ->
              FailAndReturn(w, "limite de requisicoes (429)",
                            "pausado por 45s por limite de requisicoes (429)")
         [] status >= 500 ->
              FailAndRetry(w, "erro no servidor",
                           "pausado por 45s por erros consecutivos no servidor")
         [] status = 200 ->
              /\ StayInRequest(w, "body", wk[w].wakeAt)
              /\ UNCHANGED <<providerFailures, providerCooldownUntil>>
         [] OTHER ->
              /\ ReturnError(w, <<"HTTP", "404">>)
              /\ UNCHANGED <<providerFailures, providerCooldownUntil>>
  /\ UNCHANGED <<InputVars, MainVars, nextAllowed, netlog, stopRequested, now, cnpjs,
                 taskIndex, taken>>

\* fetch rejected: aborted by stop, by the timeout, or a network error.
FetchReject(w) ==
  /\ pcMain = "round"
  /\ w \in Workers
  /\ wk[w].pc = "fetch"
  /\ stopRequested \/ (ProviderOf(w) \in hosts.reject /\ now >= wk[w].wakeAt)
  /\ IF stopRequested
     THEN WorkerStopped(w) /\ UNCHANGED <<providerFailures, providerCooldownUntil>>
     ELSE FailAndRetry(w, "falha de rede",
                       "pausado por 45s por falhas consecutivas de rede")
  /\ UNCHANGED <<InputVars, MainVars, nextAllowed, netlog, stopRequested, now, cnpjs,
                 taskIndex, taken>>

\* response.json() settled.  Once the stop handler has aborted the request
\* the read of the body rejects, which the inner catch reports as an
\* invalid response.
BodyRead(w) ==
  /\ pcMain = "round"
  /\ w \in Workers
  /\ wk[w].pc = "body"
  /\ \E body \in (IF stopRequested THEN {[t |-> "invalid"]} ELSE hosts.body[ProviderOf(w)]) :
       IF body.t = "invalid"
       THEN FailAndReturn(w, "resposta invalida",
                          "pausado por 45s por respostas invalidas consecutivas")
       ELSE IF toJsonRecord(body) = JNull
       THEN FailAndReturn(w, "payload inesperado",
                          "pausado por 45s por payload inesperado consecutivo")
       ELSE /\ providerFailures' = recordProviderSuccess(ProviderOf(w)).failures
            /\ providerCooldownUntil' = recordProviderSuccess(ProviderOf(w)).cooldownUntil
            /\ AfterProvider(w, consultarProvider(ProviderOf(w), JsonOk(toJsonRecord(body).f)))
  /\ UNCHANGED <<InputVars, MainVars, nextAllowed, netlog, stopRequested, now, cnpjs,
                 taskIndex, taken>>

\* sleepInterruptible ran to its end (its last nap does not look at the stop
\* flag): the next attempt, whose first statement is the stop check, or the
\* end of the loop, which has none.
\* Variant of BackoffWake that allows one attempt more than MAX_RETRIES.
BackoffWakeOneMore(w) ==
  /\ pcMain = "round"
  /\ w \in Workers
  /\ wk[w].pc = "backoff"
  /\ now >= wk[w].wakeAt
  /\ IF wk[w].attempt <= MAX_RETRIES
     THEN IF stopRequested
          THEN WorkerStopped(w) /\ UNCHANGED <<providerFailures, providerCooldownUntil>>
          ELSE /\ wk' = [wk EXCEPT ![w].pc = "request", ![w].attempt = @ + 1,
                                   ![w].wakeAt = 0]
               /\ UNCHANGED <<results, obtained, activeRequests, completed, job,
                              providerFailures, providerCooldownUntil>>
     ELSE LET rec == recordProviderFailure(ProviderOf(w))
          IN /\ providerFailures' = rec.failures
             /\ providerCooldownUntil' = rec.cooldownUntil
             /\ ReturnError(w, <<IF wk[w].lastError # "" THEN wk[w].lastError
                                 ELSE "falha sem detalhe">>)
  /\ UNCHANGED <<InputVars, MainVars, nextAllowed, netlog, stopRequested, now, cnpjs,
                 taskIndex, taken>>

BackoffWake(w) ==
  /\ pcMain = "round"
  /\ w \in Workers
  /\ wk[w].pc = "backoff"
  /\ now >= wk[w].wakeAt
  /\ IF wk[w].attempt + 1 <= MAX_RETRIES
     THEN IF stopRequested
          THEN WorkerStopped(w) /\ UNCHANGED <<providerFailures, providerCooldownUntil>>
          ELSE /\ wk' = [wk EXCEPT ![w].pc = "request", ![w].attempt = @ + 1,
                                   ![w].wakeAt = 0]
               /\ UNCHANGED <<results, obtained, activeRequests, completed, job,
                              providerFailures, providerCooldownUntil>>
     ELSE LET rec == recordProviderFailure(ProviderOf(w))
          IN /\ providerFailures' = rec.failures
             /\ providerCooldownUntil' = rec.cooldownUntil
             /\ ReturnError(w, <<IF wk[w].lastError # "" THEN wk[w].lastError
                                 ELSE "falha sem detalhe">>)
  /\ UNCHANGED <<InputVars, MainVars, nextAllowed, netlog, stopRequested, now, cnpjs,
                 taskIndex, taken>>

\* sleepInterruptible saw the stop flag at one of its polls.
BackoffStop(w) ==
  /\ pcMain = "round"
  /\ w \in Workers
  /\ wk[w].pc = "backoff"
  /\ stopRequested
  /\ now < wk[w].wakeAt
  /\ WorkerStopped(w)
  /\ UNCHANGED <<InputVars, MainVars, ClientVars, stopRequested, now, cnpjs, taskIndex, taken>>

(***************************************************************************)
(* processWorkbook: the round loop.                                        *)
(***************************************************************************)
RoundVars == <<cnpjs, results, completed, activeRequests, taskIndex, wk, taken, obtained>>

\* Math.min(2 * roundIndex, 8) seconds
\* Variant of RoundWaitMs without the cap.
RoundWaitMsUncapped(index) == 2 * index * 1000

RoundWaitMs(index) == Min(2 * index, ROUND_WAIT_CAP_SECONDS) * 1000

\* validateAndBuildOptions on the input file: the message it throws, or <<>>.
\* (The numbers of workerData were normalised by the main process.)
validateAndBuildOptions ==
  IF options.inputFile.ext # ".xlsx" THEN <<"Selecione um arquivo .xlsx valido.">>
  ELSE IF ~options.inputFile.isFile THEN <<"Arquivo de entrada NAO encontrado.">>
  ELSE <<>>

\* runWorker: validateAndBuildOptions threw, the catch posts the error event.
RunWorkerFails ==
  /\ pcMain = "start"
  /\ validateAndBuildOptions # <<>>
  /\ errorEvent' = validateAndBuildOptions
  /\ pcMain' = "failed"
  /\ UNCHANGED <<InputVars, ClientVars, RoundVars, stopRequested, now, job, roundIndex,
                 pendingCnpjs, interrupted, mainWakeAt, doneEvent, savedCache, reportFile>>

\* The job starts: rows selected, cache loaded, invalid rows and cache hits reported.
Prepare ==
  /\ pcMain = "start"
  /\ validateAndBuildOptions = <<>>
  /\ job' = PrepareJob
  /\ pendingCnpjs' = PendingAfterPrepare(job')
  /\ roundIndex' = 1
  /\ pcMain' = "loop"
  /\ UNCHANGED <<InputVars, ClientVars, RoundVars, stopRequested, now, interrupted,
                 mainWakeAt, doneEvent, errorEvent, savedCache, reportFile>>

\* A loop head that leaves on the stop flag without recording the interruption.
RoundLoopExitUnrecorded ==
  /\ pcMain = "loop"
  /\ roundIndex > maxRounds \/ pendingCnpjs = {} \/ stopRequested
  /\ pcMain' = "finish"
  /\ UNCHANGED <<InputVars, ClientVars, RoundVars, stopRequested, now, job, roundIndex,
                 pendingCnpjs, interrupted, mainWakeAt, doneEvent, errorEvent, savedCache,
                 reportFile>>

\* Top of the round loop when no round is run.
RoundLoopExit ==
  /\ pcMain = "loop"
  /\ roundIndex > maxRounds \/ pendingCnpjs = {} \/ stopRequested
  /\ interrupted' = IF roundIndex <= maxRounds /\ pendingCnpjs # {} /\ stopRequested
                    THEN TRUE ELSE interrupted
  /\ pcMain' = "finish"
  /\ UNCHANGED <<InputVars, ClientVars, RoundVars, stopRequested, now, job, roundIndex,
                 pendingCnpjs, mainWakeAt, doneEvent, errorEvent, savedCache, reportFile>>

\* Top of the round loop when a round is run: queryCnpjsParallel starts its workers.
RoundBegin ==
  /\ pcMain = "loop"
  /\ roundIndex <= maxRounds /\ pendingCnpjs # {} /\ ~stopRequested
  /\ cnpjs' = SortCnpjs(pendingCnpjs)
  /\ job' = [job EXCEPT !.roundSeen = {}]
  /\ results' = <<>>
  /\ completed' = 0
  /\ activeRequests' = 0
  /\ taskIndex' = 0
  /\ wk' = [w \in 1..NumWorkers(options.workers, Len(cnpjs')) |-> NewWorker]
  /\ taken' = <<>>
  /\ obtained' = {}
  /\ pcMain' = "round"
  /\ UNCHANGED <<InputVars, ClientVars, stopRequested, now, roundIndex, pendingCnpjs,
                 interrupted, mainWakeAt, doneEvent, errorEvent, savedCache, reportFile>>

\* Every workerLoop has returned: the outcomes of the round are processed
\* and the loop either stops, sleeps or goes on.
RoundEnd ==
  /\ pcMain = "round"
  /\ \A w \in Workers : wk[w].pc = "exit"
  /\ LET r == ProcessRound([j |-> job, next |-> {}], cnpjs)
     IN /\ job' = r.j
        /\ pendingCnpjs' = r.next
        /\ IF stopRequested
           THEN /\ interrupted' = TRUE
                /\ pcMain' = "finish"
                /\ UNCHANGED <<roundIndex, mainWakeAt>>
           ELSE IF r.next # {} /\ roundIndex < maxRounds
             THEN /\ pcMain' = "wait"
                  /\ mainWakeAt' = now + RoundWaitMs(roundIndex)
                  /\ UNCHANGED <<roundIndex, interrupted>>
           ELSE /\ pcMain' = "loop"
                /\ roundIndex' = roundIndex + 1
                /\ UNCHANGED <<interrupted, mainWakeAt>>
  /\ wk' = <<>>
  /\ UNCHANGED <<InputVars, ClientVars, stopRequested, now, cnpjs, results, completed,
                 activeRequests, taskIndex, taken, obtained, doneEvent, errorEvent, savedCache,
                 reportFile>>

\* sleepInterruptible between two rounds ran to its end.
WaitWake ==
  /\ pcMain = "wait"
  /\ now >= mainWakeAt
  /\ roundIndex' = roundIndex + 1
  /\ pcMain' = "loop"
  /\ UNCHANGED <<InputVars, ClientVars, RoundVars, stopRequested, now, job, pendingCnpjs,
                 interrupted, mainWakeAt, doneEvent, errorEvent, savedCache, reportFile>>

\* sleepInterruptible between two rounds saw the stop flag at one of its polls.
WaitStop ==
  /\ pcMain = "wait"
  /\ stopRequested
  /\ interrupted' = TRUE
  /\ pcMain' = "finish"
  /\ UNCHANGED <<InputVars, ClientVars, RoundVars, stopRequested, now, job, roundIndex,
                 pendingCnpjs, mainWakeAt, doneEvent, errorEvent, savedCache, reportFile>>

\* After the loop: pending identifiers, files, final progress, the done event.
Finish ==
  /\ pcMain = "finish"
  /\ job' = FinishJob(job)
  /\ savedCache' = saveCache(job'.cache)
  /\ reportFile' = SortReport(job'.detailedRows)
  /\ doneEvent' = <<ProcessResult(job')>>
  /\ pcMain' = "done"
  /\ UNCHANGED <<InputVars, ClientVars, RoundVars, stopRequested, now, roundIndex,
                 pendingCnpjs, interrupted, mainWakeAt, errorEvent>>

\* parentPort 'message' handler: { type: 'stop' }.
Stop ==
  /\ pcMain \notin {"done", "failed"}
  /\ ~stopRequested
  /\ stopRequested' = TRUE
  /\ UNCHANGED <<InputVars, MainVars, ClientVars, RoundVars, now, job>>

\* The timers that are running: the inter-round sleep, and the timers the
\* workers are blocked on.
Timers ==
  (IF pcMain = "wait" THEN {mainWakeAt} ELSE {})
    \cup {wk[w].wakeAt : w \in {x \in Workers : wk[x].pc \in {"waitTurn", "fetch", "backoff"}}}

\* Whether some code is ready to run without waiting for a timer.
Runnable ==
  \/ pcMain \in {"start", "loop", "finish"}
  \/ pcMain = "round" /\ \A w \in Workers : wk[w].pc = "exit"
  \/ \E w \in Workers : wk[w].pc \in {"loop", "chain", "request", "body"}

\* Date.now() advances to the instant of the next timer, once everything is
\* blocked on a timer.
Tick ==
  /\ pcMain \in {"round", "wait"}
  /\ ~Runnable
  /\ Timers # {}
  /\ \E t \in Timers :
       /\ t > now
       /\ \A d \in Timers : t <= d
       /\ now' = t
  /\ UNCHANGED <<InputVars, MainVars, ClientVars, RoundVars, stopRequested, job>>

\* The worker thread before runWorker has run.
InitJob(delays, maxRowsSet, workerSet, reprocessSet, cacheSet) ==
  /\ options \in [inputFile : InputFiles,
                  delayMs : {Max(d, MIN_DELAY_MS) : d \in delays}, maxRows : maxRowsSet,
                  workers : workerSet, reprocessRounds : reprocessSet]
  /\ cacheFile \in cacheSet
  /\ pcMain = "start"
  /\ stopRequested = FALSE
  /\ now = 0
  /\ job = EmptyJob
  /\ roundIndex = 1
  /\ pendingCnpjs = {}
  /\ interrupted = FALSE
  /\ mainWakeAt = 0
  /\ cnpjs = <<>>
  /\ results = <<>>
  /\ completed = 0
  /\ activeRequests = 0
  /\ taskIndex = 0
  /\ wk = <<>>
  /\ providerFailures = [p \in ProviderNames |-> 0]
  /\ providerCooldownUntil = [p \in ProviderNames |-> 0]
  /\ nextAllowed = [p \in ProviderNames |-> 0]
  /\ doneEvent = <<>>
  /\ errorEvent = <<>>
  /\ savedCache = <<>>
  /\ reportFile = <<>>
  /\ taken = <<>>
  /\ obtained = {}
  /\ netlog = [p \in ProviderNames |-> [count |-> 0, last |-> 0, minGap |-> 0, paused |-> 0]]

\* The main process before any IPC call.
MainIdle ==
  /\ activeWorker = 0
  /\ activeJobId = 0
  /\ created = 0
  /\ workerData = <<>>
  /\ ipcCalls = 0
  /\ ipcPayload = <<>>
  /\ ipcReply = <<>>
  /\ sentEvents = <<>>
  /\ stopPosts = 0

InitWith(delays, maxRowsSet, workerSet, reprocessSet, cacheSet) ==
  /\ InitJob(delays, maxRowsSet, workerSet, reprocessSet, cacheSet)
  /\ MainIdle
  /\ parseInput = <<>>
  /\ parseOutput = <<>>
  /\ ui = AppMounted
  /\ hosts = DefaultHosts

Init == InitWith({1000}, MaxRowsChoices, 1..MaxWorkers, 0..MaxReprocess, CacheFiles)

JobNext ==
  \/ RunWorkerFails
  \/ Prepare
  \/ RoundLoopExit
  \/ RoundBegin
  \/ RoundEnd
  \/ WaitWake
  \/ WaitStop
  \/ Finish
  \/ Stop
  \/ Tick
  \/ \E w \in Workers : WorkerLoop(w)
  \/ \E w \in Workers : ChainStep(w)

Next ==
  \/ JobNext
  \/ \E w \in Workers : RequestJsonReturns(w)

Spec == Init /\ [][Next]_vars

\* The job of one worker with many reprocessing rounds: one identifier is
\* answered by the cache, the other one is queried round after round.
InitRounds ==
  InitWith({1000}, {[isNull |-> TRUE, n |-> 0]}, {1}, {0, MaxRetryRounds},
           {[ok |-> TRUE, entries |-> (CnpjA :> "SIM")]})

SpecRounds == InitRounds /\ [][Next]_vars

\* The job to which no stop message is ever delivered: runWorker, then the
\* steps of processWorkbook and of its workers.
StartStep ==
  \/ RunWorkerFails
  \/ Prepare

RunStep ==
  \/ RoundLoopExit
  \/ RoundBegin
  \/ RoundEnd
  \/ WaitWake
  \/ Finish
  \/ Tick
  \/ \E w \in Workers : WorkerLoop(w)
  \/ \E w \in Workers : ChainStep(w)
  \/ \E w \in Workers : RequestJsonReturns(w)

NextNoStop == StartStep \/ RunStep

\* Once processWorkbook is at its round loop the event loop of the worker
\* thread runs whatever is ready, every timer fires and every call of
\* requestJson returns: a step of the job that stays possible is taken.
SpecNoStop == InitRounds /\ [][NextNoStop]_vars /\ WF_vars(RunStep)

\* The job with requestJson taken step by step.
InitClient ==
  InitWith(DelayChoices, {[isNull |-> TRUE, n |-> 0]}, {MaxWorkers}, 0..MaxReprocess,
           {[ok |-> FALSE, entries |-> <<>>]})

NextClient ==
  \/ JobNext
  \/ \E w \in Workers : RequestAttempt(w)
  \/ \E w \in Workers : WaitTurnWake(w)
  \/ \E w \in Workers : FetchResponse(w)
  \/ \E w \in Workers : FetchReject(w)
  \/ \E w \in Workers : BodyRead(w)
  \/ \E w \in Workers : BackoffWake(w)
  \/ \E w \in Workers : BackoffStop(w)

SpecClient == InitClient /\ [][NextClient]_vars

\* The job of one worker and one identifier that no provider answers, with
\* up to MaxSoftReprocess more rounds.
InitSoft ==
  /\ InitJob({5000}, {[isNull |-> TRUE, n |-> 0]}, {1}, {0, MaxSoftReprocess},
             {[ok |-> TRUE, entries |-> (CnpjA :> "SIM")]})
  /\ MainIdle
  /\ parseInput = <<>>
  /\ parseOutput = <<>>
  /\ ui = AppMounted
  /\ hosts = SoftHosts

SpecSoft == InitSoft /\ [][NextClient]_vars

(***************************************************************************)
(* The main process: validateJobRequest and the IPC handlers.  A number is *)
(* kept in thousandths (0.5 is JNum(500)); NaN and Infinity are values of  *)
(* their own.                                                              *)
(***************************************************************************)
MaxIpcCalls == 2
MaxSentEvents == 2

JNum(milli) == [t |-> "num", milli |-> milli]
JNaN == [t |-> "nan"]
JInfinity == [t |-> "inf"]

\* The digits after a decimal point, as thousandths.
FractionMilli(frac) ==
  ParseRow(frac \o [i \in 1..(3 - Len(frac)) |-> "0"])

\* StringToNumber on an unsigned decimal literal of at most three decimals.
UnsignedToNumber(s) ==
  LET dots == {i \in 1..Len(s) : s[i] = "."}
  IN IF s = <<>> THEN JNaN
     ELSE IF dots = {}
       THEN IF \A i \in 1..Len(s) : IsDigit(s[i]) THEN JNum(1000 * ParseRow(s)) ELSE JNaN
     ELSE IF Cardinality(dots) > 1 THEN JNaN
     ELSE LET p == CHOOSE i \in dots : TRUE
              whole == SubSeq(s, 1, p - 1)
              frac == SubSeq(s, p + 1, Len(s))
          IN IF /\ \A i \in 1..Len(whole) : IsDigit(whole[i])
                /\ \A i \in 1..Len(frac) : IsDigit(frac[i])
                /\ Len(whole) + Len(frac) > 0
                /\ Len(frac) <= 3
             THEN JNum(1000 * ParseRow(whole) + FractionMilli(frac))
             ELSE JNaN

\* StringToNumber: white space is trimmed, the empty string is 0.
StringToNumber(s) ==
  LET t == Trim(s)
  IN IF t = <<>> THEN JNum(0)
     ELSE IF Head(t) = "-"
       THEN LET n == UnsignedToNumber(Tail(t))
            IN IF n.t = "num" THEN JNum(0 - n.milli) ELSE n
     ELSE IF Head(t) = "+" THEN UnsignedToNumber(Tail(t))
     ELSE UnsignedToNumber(t)

\* Number(value) on a primitive value.
PrimitiveToNumber(value) ==
  CASE value.t \in {"num", "nan", "inf"} -> value
    [] value.t = "absent" -> JNaN
    [] value.t = "null" -> JNum(0)
    [] value.t = "bool" -> IF value.b THEN JNum(1000) ELSE JNum(0)
    [] value.t = "str" -> StringToNumber(value.s)
    [] OTHER -> JNaN

\* Number(value): an array is converted through its string, which is empty
\* for [] and the string of its element for [x]; any other object is NaN.
Number(value) ==
  IF value.t = "arr"
  THEN IF Len(value.items) = 0 THEN JNum(0)
       ELSE IF Len(value.items) = 1
         THEN IF value.items[1].t \in {"absent", "null"} THEN JNum(0)
              ELSE IF value.items[1].t = "bool" THEN JNaN
              ELSE PrimitiveToNumber(value.items[1])
       ELSE JNaN
  ELSE PrimitiveToNumber(value)

NumberIsFinite(n) == n.t = "num"

NumberIsInteger(n) == n.t = "num" /\ n.milli % 1000 = 0

\* validateJobRequest(input): the normalised request, or the message of the
\* error it throws.
validateJobRequest(input) ==
  IF input.t \notin {"obj", "arr"}
  THEN [ok |-> FALSE, message |-> "Payload invalido para iniciar processamento."]
  ELSE LET data == IF input.t = "obj" THEN input.f ELSE <<>>
           delaySeconds == Number(Get(data, "delaySeconds"))
           workers == Number(Get(data, "workers"))
           reprocessRounds == Number(Get(data, "reprocessRounds"))
           rawMaxRows == Get(data, "maxRows")
           inputFile == Get(data, "inputFile")
       IN IF inputFile.t # "str" \/ Len(Trim(inputFile.s)) = 0
            THEN [ok |-> FALSE, message |-> "Arquivo de entrada invalido."]
          ELSE IF ~NumberIsFinite(delaySeconds) \/ delaySeconds.milli <= 0
            THEN [ok |-> FALSE, message |-> "Delay invalido."]
          ELSE IF ~NumberIsInteger(workers) \/ workers.milli <= 0 \/ workers.milli > 32000
            THEN [ok |-> FALSE, message |-> "Workers invalidos."]
          ELSE IF \/ ~NumberIsInteger(reprocessRounds)
                  \/ reprocessRounds.milli < 0
                  \/ reprocessRounds.milli > 10000
            THEN [ok |-> FALSE, message |-> "Rodadas de reprocessamento invalidas."]
          ELSE IF /\ rawMaxRows.t \notin {"null", "absent"}
                  /\ (~NumberIsInteger(Number(rawMaxRows)) \/ Number(rawMaxRows).milli < 0)
            THEN [ok |-> FALSE, message |-> "Limite de linhas invalido."]
          ELSE [ok |-> TRUE,
                request |-> [inputFile |-> inputFile.s,
                             delaySeconds |-> delaySeconds,
                             maxRows |-> IF rawMaxRows.t \in {"null", "absent"} THEN JNull
                                         ELSE Number(rawMaxRows),
                             workers |-> workers,
                             reprocessRounds |-> reprocessRounds]]

\* Payloads of startJob: a well-formed request, and requests that differ
\* from it in one field.
TextXlsx == <<"a",".","x","l","s","x">>

BaseRequest ==
  ("inputFile" :> JStr(TextXlsx)) @@ ("delaySeconds" :> JNum(500)) @@
  ("workers" :> JNum(2000)) @@ ("reprocessRounds" :> JNum(1000)) @@ ("maxRows" :> JNull)

FieldValues ==
  [inputFile |-> {JStr(TextXlsx), JStr(<<" ">>), JNum(5000), JAbsent},
   delaySeconds |-> {JNum(500), JNum(0), JNum(0 - 1000), JNaN, JInfinity, JAbsent,
                     JStr(<<"0", ".", "5">>), JStr(<<"a">>), JBool(TRUE)},
   workers |-> {JNum(1000), JNum(32000), JNum(33000), JNum(0), JNum(1500), JNaN,
                JStr(<<"4">>), JBool(TRUE), JNull},
   reprocessRounds |-> {JNum(0), JNum(10000), JNum(11000), JNum(0 - 1000), JNum(500),
                        JAbsent, JNull, JStr(<<>>), JArr(<<>>)},
   maxRows |-> {JNull, JAbsent, JNum(0), JNum(3000), JNum(0 - 1000), JNum(2500), JNaN,
                JStr(<<>>), JStr(<<"1", "0">>), JBool(FALSE)}]

WithField(name, value) ==
  IF value = JAbsent THEN [k \in DOMAIN BaseRequest \ {name} |-> BaseRequest[k]]
  ELSE [k \in DOMAIN BaseRequest |-> IF k = name THEN value ELSE BaseRequest[k]]

StartPayloads ==
  {JNull, JStr(TextXlsx), JArr(<<>>)}
    \cup {JObj(WithField(name, value)) :
            name \in {"delaySeconds"}, value \in FieldValues.delaySeconds}
    \cup {JObj(WithField("inputFile", value)) : value \in FieldValues.inputFile}
    \cup {JObj(WithField("workers", value)) : value \in FieldValues.workers}
    \cup {JObj(WithField("reprocessRounds", value)) : value \in FieldValues.reprocessRounds}
    \cup {JObj(WithField("maxRows", value)) : value \in FieldValues.maxRows}

\* clearActiveJob()
\* Variant of clearActiveJob that leaves the listeners of the worker in place.
clearActiveJobKeepsListeners ==
  /\ activeWorker' = activeWorker
  /\ activeJobId' = 0

clearActiveJob ==
  /\ activeWorker' = 0
  /\ activeJobId' = 0

\* The state of the worker thread.
WorkerThreadVars ==
  <<options, cacheFile, pcMain, stopRequested, now, job, roundIndex, pendingCnpjs,
    interrupted, mainWakeAt, cnpjs, results, completed, activeRequests, taskIndex, wk,
    providerFailures, providerCooldownUntil, nextAllowed, doneEvent, errorEvent,
    savedCache, reportFile, taken, obtained, netlog, hosts>>

\* ipcMain.handle(startJob)
StartJob(payload) ==
  /\ ipcCalls < MaxIpcCalls
  /\ ipcCalls' = ipcCalls + 1
  /\ ipcPayload' = <<payload>>
  /\ IF activeWorker # 0 \/ activeJobId # 0
     THEN /\ ipcReply' = <<[channel |-> "startJob", ok |-> FALSE,
                           value |-> "Ja existe um processamento em andamento."]>>
          /\ UNCHANGED <<activeWorker, activeJobId, created, workerData>>
     ELSE LET valid == validateJobRequest(payload)
          IN IF ~valid.ok
             THEN /\ ipcReply' = <<[channel |-> "startJob", ok |-> FALSE, value |-> valid.message]>>
                  /\ UNCHANGED <<activeWorker, activeJobId, created, workerData>>
             ELSE /\ created' = created + 1
                  /\ workerData' = <<valid.request>>
                  /\ activeWorker' = created + 1
                  /\ activeJobId' = created + 1
                  /\ ipcReply' = <<[channel |-> "startJob", ok |-> TRUE, value |-> "jobId"]>>
  /\ UNCHANGED <<WorkerThreadVars, sentEvents, stopPosts, parseInput, parseOutput, ui>>

\* worker.on("message"): the event is forwarded; done and error end the job.
WorkerMessage(type) ==
  /\ activeWorker # 0
  /\ Len(sentEvents) < MaxSentEvents
  /\ sentEvents' = Append(sentEvents, [type |-> type, message |-> "from the worker"])
  /\ IF type \in {"done", "error"} THEN clearActiveJob
     ELSE UNCHANGED <<activeWorker, activeJobId>>
  /\ UNCHANGED <<WorkerThreadVars, created, workerData, ipcCalls, ipcPayload, ipcReply,
                 stopPosts, parseInput, parseOutput, ui>>

\* worker.on("error")
WorkerError ==
  /\ activeWorker # 0
  /\ Len(sentEvents) < MaxSentEvents
  /\ sentEvents' = Append(sentEvents, [type |-> "error", message |-> "error.message"])
  /\ clearActiveJob
  /\ UNCHANGED <<WorkerThreadVars, created, workerData, ipcCalls, ipcPayload, ipcReply,
                 stopPosts, parseInput, parseOutput, ui>>

\* worker.on("exit"): the listeners are attached while the job is active.
WorkerExit(code) ==
  /\ activeWorker # 0
  /\ Len(sentEvents) < MaxSentEvents
  /\ IF code # 0
     THEN /\ sentEvents' = Append(sentEvents, [type |-> "error",
                                                message |-> "Worker encerrado com codigo 1."])
          /\ clearActiveJob
     ELSE UNCHANGED <<sentEvents, activeWorker, activeJobId>>
  /\ UNCHANGED <<WorkerThreadVars, created, workerData, ipcCalls, ipcPayload, ipcReply,
                 stopPosts, parseInput, parseOutput, ui>>

\* A stopJob that does not look for an active job.
StopJobAlwaysPosts ==
  /\ ipcCalls < MaxIpcCalls
  /\ ipcCalls' = ipcCalls + 1
  /\ ipcReply' = <<[channel |-> "stopJob", ok |-> TRUE, value |-> "true"]>>
  /\ stopPosts' = stopPosts + 1
  /\ UNCHANGED <<WorkerThreadVars, activeWorker, activeJobId, created, workerData,
                 ipcPayload, sentEvents, parseInput, parseOutput, ui>>

\* ipcMain.handle(stopJob)
StopJob ==
  /\ ipcCalls < MaxIpcCalls
  /\ ipcCalls' = ipcCalls + 1
  /\ IF activeWorker = 0
     THEN /\ ipcReply' = <<[channel |-> "stopJob", ok |-> TRUE, value |-> "false"]>>
          /\ UNCHANGED stopPosts
     ELSE /\ ipcReply' = <<[channel |-> "stopJob", ok |-> TRUE, value |-> "true"]>>
          /\ stopPosts' = stopPosts + 1
  /\ UNCHANGED <<WorkerThreadVars, activeWorker, activeJobId, created, workerData,
                 ipcPayload, sentEvents, parseInput, parseOutput, ui>>

InitMain ==
  /\ InitWith({1000}, {[isNull |-> TRUE, n |-> 0]}, {1}, {0}, {[ok |-> FALSE, entries |-> <<>>]})
  /\ validateAndBuildOptions = <<>>

NextMain ==
  \/ \E payload \in StartPayloads : StartJob(payload)
  \/ \E type \in {"log", "progress", "done", "error"} : WorkerMessage(type)
  \/ WorkerError
  \/ \E code \in {0, 1} : WorkerExit(code)
  \/ StopJob

SpecMain == InitMain /\ [][NextMain]_vars

(***************************************************************************)
(* parseGenericSimples alone, applied to the payloads a provider can send. *)
(***************************************************************************)
TextSimplesNacional == <<"S","i","m","p","l","e","s"," ","N","a","c","i","o","n","a","l">>
TextLucro == <<"L","U","C","R","O">>
TextLower == <<"o"," ","s","i","m","p","l","e","s">>

\* Values of the fields parseGenericSimples reads.
SimplesValues ==
  {JAbsent, JNull, JBool(TRUE), JBool(FALSE), JStr(TextSIMPLES), JObj(<<>>),
   JObj("optante" :> JBool(TRUE)), JObj("optante" :> JBool(FALSE)),
   JObj("optante" :> JStr(<<"t","r","u","e">>)), JObj("optante" :> JNull),
   JArr(<<JBool(TRUE)>>)}

OpcaoValues == {JAbsent, JNull, JBool(TRUE), JBool(FALSE), JStr(TextSIMPLES)}

RegimeValues ==
  {JAbsent, JNull, JArr(<<>>), JStr(TextSIMPLES), JObj("forma_de_tributacao" :> JStr(TextSIMPLES)),
   JArr(<<JObj("forma_de_tributacao" :> JStr(TextSimplesNacional))>>),
   JArr(<<JObj("forma_de_tributacao" :> JStr(TextLucro))>>),
   JArr(<<JObj("forma_de_tributacao" :> JStr(TextLucro)),
          JObj("forma_de_tributacao" :> JStr(TextLower))>>),
   JArr(<<JStr(TextSIMPLES)>>),
   JArr(<<JNull, JObj("forma_de_tributacao" :> JNull)>>),
   JArr(<<JObj(<<>>)>>),
   JArr(<<JObj("forma_de_tributacao" :> JBool(TRUE))>>)}

\* The parsed object with these fields (a field that is absent is left out).
PayloadOf(simples, opcao, opcaoAlt, regime) ==
  LET all == ("simples" :> simples) @@ ("opcao_pelo_simples" :> opcao) @@
             ("opcao_simples" :> opcaoAlt) @@ ("regime_tributario" :> regime)
      present == {k \in DOMAIN all : all[k] # JAbsent}
  IN [k \in present |-> all[k]]

ParseInputs ==
  {<<[payload |-> PayloadOf(s, o, a, r), providerName |-> p]>> :
     s \in SimplesValues, o \in OpcaoValues, a \in {JAbsent, JBool(TRUE), JBool(FALSE)},
     r \in RegimeValues, p \in {"receitaws", "cnpjws"}}

InitParse ==
  /\ InitJob({1000}, {[isNull |-> TRUE, n |-> 0]}, {1}, {0}, {[ok |-> FALSE, entries |-> <<>>]})
  /\ validateAndBuildOptions = <<>>
  /\ MainIdle
  /\ parseInput \in ParseInputs
  /\ parseOutput = <<>>
  /\ ui = AppMounted
  /\ hosts = DefaultHosts

\* parseGenericSimples(payload, providerName) is called and returns.
ParseCall ==
  /\ parseOutput = <<>>
  /\ parseOutput' = <<parseGenericSimples(parseInput[1].payload, parseInput[1].providerName)>>
  /\ UNCHANGED <<WorkerThreadVars, MainProcessVars, parseInput, ui>>

SpecParse == InitParse /\ [][ParseCall]_vars

(***************************************************************************)
(* Claims about the job (specification Spec).                              *)
(***************************************************************************)
SelectedRowNumbers == {job.selectedRows[i].row : i \in 1..Len(job.selectedRows)}

\* The entries of a report for one row.
EntriesOf(report, row) == {i \in 1..Len(report) : ParseRow(report[i].linha) = row}

\* The digits of a raw identifier.
DigitsOf(raw) == SelectSeq(raw, LAMBDA c : c \in {"0","1","2","3","4","5","6","7","8","9"})

\* The identifiers a worker is resolving.
InFlight == {w \in Workers : wk[w].pc \notin {"loop", "exit"}}

\* C1: when the job has posted done, the written report holds exactly one
\* entry for every selected row and no entry for any other row.
C1_ReportCoversSelectedRows ==
  pcMain = "done" =>
    /\ \A row \in SelectedRowNumbers : Cardinality(EntriesOf(reportFile, row)) = 1
    /\ \A i \in 1..Len(reportFile) : ParseRow(reportFile[i].linha) \in SelectedRowNumbers
    /\ Len(reportFile) = Len(job.selectedRows)

\* C1 witness: a job stopped during a round, with rows of every origin.
C1_Witness ==
  /\ pcMain = "done"
  /\ doneEvent[1].interrupted
  /\ Len(reportFile) = Len(rowData)
  /\ \E i \in 1..Len(reportFile) : reportFile[i].resultado = "PENDENTE"
  /\ \E i \in 1..Len(reportFile) : reportFile[i].origem = "API"
  /\ \E i \in 1..Len(reportFile) : reportFile[i].origem = "VALIDACAO"

\* C2: a PENDENTE entry exists only in an interrupted run; in a run that
\* ends with interrupted = false every selected row's result is one of
\* SIM, NAO, ERRO, CNPJ_INVALIDO.
C2_PendenteOnlyWhenInterrupted ==
  /\ (\E i \in 1..Len(job.detailedRows) : job.detailedRows[i].resultado = "PENDENTE")
        => interrupted
  /\ pcMain = "done" =>
       /\ (\E i \in 1..Len(reportFile) : reportFile[i].resultado = "PENDENTE")
             => doneEvent[1].interrupted
       /\ ~doneEvent[1].interrupted =>
            \A row \in SelectedRowNumbers :
              /\ EntriesOf(reportFile, row) # {}
              /\ \A i \in EntriesOf(reportFile, row) :
                   reportFile[i].resultado \in {"SIM", "NAO", "ERRO", "CNPJ_INVALIDO"}

\* C2 witness: a run that was not interrupted and ends with failed lookups.
C2_Witness ==
  /\ pcMain = "done"
  /\ ~doneEvent[1].interrupted
  /\ \E i \in 1..Len(reportFile) : reportFile[i].resultado = "ERRO"
  /\ \E i \in 1..Len(reportFile) : reportFile[i].resultado = "SIM"
  /\ \E i \in 1..Len(reportFile) : reportFile[i].resultado = "CNPJ_INVALIDO"

\* The identifiers of the selected rows that the cache file maps to SIM or NAO.
CachedIdentifiers ==
  {c \in {DigitsOf(job.selectedRows[i].cnpjRaw) : i \in 1..Len(job.selectedRows)} :
     /\ Len(c) = 14
     /\ cacheFile.ok
     /\ c \in DOMAIN cacheFile.entries
     /\ cacheFile.entries[c] \in {"SIM", "NAO"}}

RowsOfIdentifier(c) ==
  {job.selectedRows[i].row : i \in {k \in 1..Len(job.selectedRows) :
                                      DigitsOf(job.selectedRows[k].cnpjRaw) = c}}

\* C3: an identifier the loaded cache maps to SIM or NAO is never pending,
\* never dequeued or requested, and once the preparation is over each of its
\* rows has one entry with the cached status and origem = CACHE.
C3_CacheHitsBypassRounds ==
  pcMain # "start" =>
    \A c \in CachedIdentifiers :
      /\ c \notin pendingCnpjs
      /\ c \notin Range(cnpjs)
      /\ c \notin Range(taken)
      /\ \A w \in Workers : wk[w].cnpj # c
      /\ c \notin DOMAIN results
      /\ \A row \in RowsOfIdentifier(c) :
           /\ Cardinality(EntriesOf(job.detailedRows, row)) = 1
           /\ \A i \in EntriesOf(job.detailedRows, row) :
                /\ job.detailedRows[i].resultado = cacheFile.entries[c]
                /\ job.detailedRows[i].origem = "CACHE"

\* C3 witness: a round runs for another identifier while a cached one is reported.
C3_Witness ==
  /\ pcMain = "round"
  /\ CachedIdentifiers # {}
  /\ InFlight # {}
  /\ \E i \in 1..Len(job.detailedRows) :
       job.detailedRows[i].origem = "CACHE" /\ job.detailedRows[i].resultado = "NAO"

\* C4: a row whose raw identifier does not have exactly 14 digits is reported
\* CNPJ_INVALIDO with origem = VALIDACAO and never reaches the pending set or
\* the network; a row with exactly 14 digits is never reported CNPJ_INVALIDO.
C4_InvalidRowsNeverQueried ==
  pcMain # "start" =>
    /\ \A k \in 1..Len(job.selectedRows) :
         LET row == job.selectedRows[k].row
             digits == DigitsOf(job.selectedRows[k].cnpjRaw)
         IN IF Len(digits) # 14
            THEN /\ Cardinality(EntriesOf(job.detailedRows, row)) = 1
                 /\ \A i \in EntriesOf(job.detailedRows, row) :
                      /\ job.detailedRows[i].resultado = "CNPJ_INVALIDO"
                      /\ job.detailedRows[i].origem = "VALIDACAO"
                 /\ digits \notin pendingCnpjs \cup Range(cnpjs) \cup Range(taken)
            ELSE \A i \in EntriesOf(job.detailedRows, row) :
                   job.detailedRows[i].resultado # "CNPJ_INVALIDO"
    /\ \A c \in pendingCnpjs \cup Range(cnpjs) \cup Range(taken) \cup DOMAIN results :
         Len(c) = 14 /\ RowsOfIdentifier(c) # {}

\* C4 witness: the job is done with a too-short and a too-long identifier reported.
C4_Witness ==
  /\ pcMain = "done"
  /\ \E i, k \in 1..Len(reportFile) :
       /\ reportFile[i].cnpj_original = RawShort
       /\ reportFile[i].resultado = "CNPJ_INVALIDO"
       /\ reportFile[k].cnpj_original = RawLong
       /\ reportFile[k].resultado = "CNPJ_INVALIDO"
  /\ \E i \in 1..Len(reportFile) : reportFile[i].origem = "API"

\* C7: while a round runs, the identifiers in flight are at most
\* W = max(1, min(configured workers, identifiers of the round)), and the
\* counter of active requests agrees; outside a round nothing is in flight.
C7_WorkerPoolBound ==
  /\ pcMain = "round" =>
       LET W == IF options.workers < Len(cnpjs) THEN options.workers ELSE Len(cnpjs)
       IN /\ Cardinality(InFlight) <= (IF W < 1 THEN 1 ELSE W)
          /\ Cardinality(InFlight) <= options.workers
          /\ activeRequests = Cardinality(InFlight)
          /\ Len(taken) - Cardinality({o.cnpj : o \in obtained}) <= options.workers
  /\ pcMain # "round" => InFlight = {} /\ activeRequests = 0

\* C7 witness: two lookups in flight with two configured workers.
C7_Witness ==
  /\ pcMain = "round"
  /\ options.workers = 2
  /\ Cardinality(InFlight) = 2
  /\ \A w \in InFlight : wk[w].pc = "request"

\* C8: an identifier of a round is dequeued by at most one worker; every
\* outcome a worker obtained is in the result map; when every worker has
\* left and no stop was requested, every identifier has exactly one outcome.
C8_EachTaskOnce ==
  pcMain = "round" =>
    /\ \A i, k \in 1..Len(taken) : taken[i] = taken[k] => i = k
    /\ Range(taken) \subseteq Range(cnpjs)
    /\ \A o \in obtained : o.cnpj \in DOMAIN results /\ results[o.cnpj] = o.outcome
    /\ \A c \in DOMAIN results : Cardinality({o \in obtained : o.cnpj = c}) = 1
    /\ ((\A w \in Workers : wk[w].pc = "exit") /\ ~stopRequested) =>
         /\ DOMAIN results = Range(cnpjs)
         /\ Len(taken) = Len(cnpjs)

\* C8 witness: a round of two identifiers ends, unstopped, with both outcomes.
C8_Witness ==
  /\ pcMain = "round"
  /\ Len(cnpjs) = 2
  /\ Cardinality(Workers) = 2
  /\ \A w \in Workers : wk[w].pc = "exit"
  /\ ~stopRequested
  /\ Cardinality(DOMAIN results) = 2

\* C9: the done values of the progress events start at 0, strictly increase
\* afterwards, stay within 0..total, and the last one equals total when the
\* job ends with interrupted = false.
C9_ProgressMonotone ==
  pcMain \notin {"start", "failed"} =>
    /\ Len(job.posted) >= 1 /\ job.posted[1] = 0
    /\ \A i \in 1..Len(job.posted) : job.posted[i] >= 0 /\ job.posted[i] <= total
    /\ \A i \in 2..Len(job.posted) : job.posted[i] > job.posted[i - 1]
    /\ \A i, k \in 1..Len(job.posted) : i <= k => job.posted[i] <= job.posted[k]
    /\ (pcMain = "done" /\ ~doneEvent[1].interrupted) =>
         job.posted[Len(job.posted)] = total

\* C9 witness: a two-round job that was not interrupted, with progress posted
\* in the middle.
C9_Witness ==
  /\ pcMain = "done"
  /\ ~doneEvent[1].interrupted
  /\ maxRounds = 2
  /\ roundIndex = 2
  /\ Len(job.posted) >= 4
  /\ job.posted[Len(job.posted)] = total

\* The provider names of a sequence of calls.
CalledProviders(calls) == [i \in 1..Len(calls) |-> calls[i].provider]

\* A sequence of calls follows the fallback order, and every call but the
\* last one returned a non-definitive status.
InFallbackOrder(calls) ==
  /\ Len(calls) <= Len(PROVIDERS_FALLBACK)
  /\ CalledProviders(calls) = SubSeq(PROVIDERS_FALLBACK, 1, Len(calls))
  /\ \A i \in 1..(Len(calls) - 1) : calls[i].status \notin {"SIM", "NAO", "called"}

\* C10: the providers are called in the order receitaws, minhareceita,
\* brasilapi, cnpjws, each only after the previous one returned a
\* non-definitive status; after SIM or NAO no further provider is called and
\* the outcome names the provider that returned it.
C10_FallbackOrder ==
  /\ \A w \in Workers : InFallbackOrder(wk[w].calls)
  /\ \A o \in obtained :
       /\ InFallbackOrder(o.calls)
       /\ Len(o.calls) >= 1
       /\ LET last == o.calls[Len(o.calls)]
          IN IF o.outcome.status \in {"SIM", "NAO"}
             THEN /\ last.status = o.outcome.status
                  /\ o.outcome.provider = last.provider
             ELSE /\ Len(o.calls) = Len(PROVIDERS_FALLBACK)
                  /\ last.status \notin {"SIM", "NAO", "called"}

\* C10 witness: the third provider answers after two non-definitive returns.
C10_Witness ==
  \E o \in obtained :
    /\ Len(o.calls) = 3
    /\ o.outcome.provider = "brasilapi"
    /\ o.outcome.status = "NAO"
    /\ o.calls[1].status = "ERRO"
    /\ o.calls[2].status = "ERRO"

(***************************************************************************)
(* Claims about the client (specification SpecClient).                     *)
(***************************************************************************)
\* max(baseDelay x factor, 0.1 s) in ms, factors written out.
MinimumSpacing(p) ==
  LET product == CASE p = "receitaws" -> options.delayMs
                   [] p = "minhareceita" -> (options.delayMs * 4) \div 10
                   [] p = "brasilapi" -> (options.delayMs * 4) \div 10
                   [] p = "cnpjws" -> (options.delayMs * 7) \div 10
  IN IF product > 100 THEN product ELSE 100

\* C5: two consecutive dispatches to one provider are at least
\* max(baseDelay x factor, 0.1 s) apart, and the next-allowed time of a
\* provider is set by the dispatches to that provider alone: 0 before the
\* first one, the last dispatch plus the spacing afterwards.
C5_RateLimiterSpacing ==
  \A p \in ProviderNames :
    /\ netlog[p].count >= 2 => netlog[p].minGap >= MinimumSpacing(p)
    /\ nextAllowed[p] = IF netlog[p].count = 0 THEN 0
                        ELSE netlog[p].last + MinimumSpacing(p)

\* C5 witness: two dispatches to minhareceita exactly 0.4 x 5 s apart while
\* cnpjws was never called.
C5_Witness ==
  /\ options.delayMs = 5000
  /\ netlog["minhareceita"].count = 2
  /\ netlog["minhareceita"].minGap = 2000
  /\ netlog["receitaws"].count = 2
  /\ netlog["cnpjws"].count = 0
  /\ nextAllowed["cnpjws"] = 0

\* C6: no request is dispatched to a provider while its cooldown is in force.
C6_NoDispatchDuringCooldown ==
  \A p \in ProviderNames : netlog[p].paused = 0

(***************************************************************************)
(* Claims about cancellation, the cache and the rounds (specification      *)
(* Spec).                                                                  *)
(***************************************************************************)
\* The rows of an identifier all have exactly one entry in the written
\* report, with this result.
ReportedAs(c, resultado) ==
  \A i \in 1..Len(job.rowsByCnpj[c]) :
    /\ Cardinality(EntriesOf(reportFile, job.rowsByCnpj[c][i])) = 1
    /\ \A k \in EntriesOf(reportFile, job.rowsByCnpj[c][i]) :
         reportFile[k].resultado = resultado

\* C11: a round that ends after the stop signal was delivered leads to the
\* end of the job with interrupted = true; then every identifier of the
\* round without a recorded outcome has all its rows reported PENDENTE, and
\* every identifier that obtained SIM or NAO in the round is in the saved
\* cache with that status and reported with it.
C11_StopMidRound ==
  /\ [][(pcMain = "round" /\ stopRequested /\ pcMain' # "round")
          => (interrupted' /\ pcMain' = "finish")]_vars
  /\ [][(pcMain = "finish" /\ interrupted /\ pcMain' # "finish")
          => /\ pcMain' = "done"
             /\ doneEvent'[1].interrupted
             /\ errorEvent' = <<>>]_vars
  /\ [](pcMain = "done" /\ interrupted =>
          /\ \A c \in Range(cnpjs) \ DOMAIN results : ReportedAs(c, "PENDENTE")
          /\ \A o \in obtained :
               IsDefinitive(o.outcome) =>
                 /\ o.cnpj \in DOMAIN savedCache
                 /\ savedCache[o.cnpj] = o.outcome.status
                 /\ ReportedAs(o.cnpj, o.outcome.status))

\* C11 witness: a job stopped during a round of two identifiers, one
\* resolved before the end of the round and one left without outcome.
C11_Witness ==
  /\ pcMain = "done"
  /\ doneEvent[1].interrupted
  /\ Range(cnpjs) \ DOMAIN results # {}
  /\ \E o \in obtained : IsDefinitive(o.outcome)
  /\ \E i \in 1..Len(reportFile) : reportFile[i].resultado = "PENDENTE"
  /\ savedCache # <<>>

\* C12: once a stop signal was delivered, the terminal event of the job is
\* the error event or a done event with interrupted = true, never a done
\* event with interrupted = false.
C12_StopAcknowledged ==
  (stopRequested /\ pcMain \in {"done", "failed"}) =>
    \/ pcMain = "failed" /\ errorEvent # <<>> /\ doneEvent = <<>>
    \/ pcMain = "done" /\ doneEvent[1].interrupted

\* The entries of the cache file that hold SIM or NAO.
LoadedKeys ==
  IF cacheFile.ok
  THEN {k \in DOMAIN cacheFile.entries : cacheFile.entries[k] \in {"SIM", "NAO"}}
  ELSE {}

\* The identifiers that obtained SIM or NAO in the round.
DefinitiveInRound == {o.cnpj : o \in {x \in obtained : x.outcome.status \in {"SIM", "NAO"}}}

\* C13: the cache maps identifiers to SIM or NAO only, during the run and in
\* the saved file; it starts as the valid entries of the file, grows at the
\* end of a round by exactly the identifiers that obtained SIM or NAO in it,
\* changes at no other step and is saved as it is; a loaded entry keeps its
\* value; an identifier reported ERRO or PENDENTE is not in the saved cache.
C13_CacheOnlyDefinitive ==
  /\ [](/\ \A k \in DOMAIN job.cache : job.cache[k] \in {"SIM", "NAO"}
        /\ \A k \in DOMAIN savedCache : savedCache[k] \in {"SIM", "NAO"}
        /\ pcMain \notin {"start", "failed"} =>
             \A k \in LoadedKeys :
               k \in DOMAIN job.cache /\ job.cache[k] = cacheFile.entries[k]
        /\ pcMain = "done" =>
             \A i \in 1..Len(reportFile) :
               reportFile[i].resultado \in {"ERRO", "PENDENTE"}
                 => reportFile[i].cnpj_limpo \notin DOMAIN savedCache)
  /\ [][(pcMain = "start" /\ pcMain' = "loop") => DOMAIN job'.cache = LoadedKeys]_vars
  /\ [][(pcMain = "round" /\ pcMain' # "round") =>
          /\ DOMAIN job'.cache = DOMAIN job.cache \cup DefinitiveInRound
          /\ \A o \in obtained :
               o.cnpj \in DefinitiveInRound => job'.cache[o.cnpj] = o.outcome.status]_vars
  /\ [][(pcMain \notin {"start", "round"} \/ pcMain' = "round") => job'.cache = job.cache]_vars
  /\ [][(pcMain = "finish" /\ pcMain' = "done") => savedCache' = job.cache]_vars

\* C13 witness: the saved cache holds a loaded entry next to an entry of the
\* run, while another identifier of the run is reported ERRO.
C13_Witness ==
  /\ pcMain = "done"
  /\ LoadedKeys # {}
  /\ DOMAIN savedCache \ LoadedKeys # {}
  /\ cacheFile.ok /\ \E k \in DOMAIN cacheFile.entries : cacheFile.entries[k] = "PENDENTE"
  /\ \E i \in 1..Len(reportFile) :
       reportFile[i].resultado = "ERRO" /\ reportFile[i].origem = "API"

\* The rows of an identifier have no entry in the report being built.
NotYetReported(j, c) ==
  \A i \in 1..Len(j.rowsByCnpj[c]) : EntriesOf(j.detailedRows, j.rowsByCnpj[c][i]) = {}

\* C14: an identifier queued for a later round had a soft error (or no
\* outcome) in the round and gets no report entry for it; while a later
\* round runs its identifiers still have no entry; when such an identifier
\* obtains SIM or NAO in the later round each of its rows gets exactly one
\* entry with that status, origem = API and the provider that answered in
\* that round, and the written report holds that entry and no other for
\* the row.
C14_RetryThenDefinitive ==
  /\ [][(pcMain = "round" /\ pcMain' # "round") =>
          \A c \in pendingCnpjs' :
            /\ c \in DOMAIN results => results[c].status = "ERRO"
            /\ NotYetReported(job', c)]_vars
  /\ [](pcMain = "round" /\ roundIndex >= 2 => \A c \in Range(cnpjs) : NotYetReported(job, c))
  /\ [][(pcMain = "round" /\ roundIndex >= 2 /\ pcMain' # "round") =>
          \A o \in obtained :
            o.outcome.status \in {"SIM", "NAO"} =>
              \A i \in 1..Len(job.rowsByCnpj[o.cnpj]) :
                LET entries == EntriesOf(job'.detailedRows, job.rowsByCnpj[o.cnpj][i])
                IN /\ Cardinality(entries) = 1
                   /\ \A k \in entries :
                        /\ job'.detailedRows[k].resultado = o.outcome.status
                        /\ job'.detailedRows[k].origem = "API"
                        /\ job'.detailedRows[k].provedor = o.calls[Len(o.calls)].provider
                        /\ o.calls[Len(o.calls)].status = o.outcome.status]_vars
  /\ [](pcMain = "done" =>
          /\ Len(reportFile) = Len(job.detailedRows)
          /\ \A i \in 1..Len(job.detailedRows) :
               \E k \in 1..Len(reportFile) : reportFile[k] = job.detailedRows[i])

\* C14 witness: two identifiers were queried in round 1; the second round
\* ran for one of them, on two rows, and the second provider of the chain
\* resolved it.
C14_Witness ==
  /\ pcMain = "done"
  /\ roundIndex >= 2
  /\ Cardinality(PendingAfterPrepare([job EXCEPT !.cache = loadCache(cacheFile)])) = 2
  /\ Len(cnpjs) = 1
  /\ \E o \in obtained :
       /\ o.outcome.status \in {"SIM", "NAO"}
       /\ Len(o.calls) = 2
       /\ Len(job.rowsByCnpj[o.cnpj]) = 2

(***************************************************************************)
(* Claims about the wait between two rounds (specification SpecRounds).    *)
(***************************************************************************)
\* C15: the job starts to wait only at the end of a round that leaves
\* identifiers pending, with rounds left and no stop requested, and then for
\* min(2 * roundIndex, 8) seconds; the next round starts only when that time
\* has passed; with reprocessRounds = 0 there is no wait and every soft
\* error of round 1 is reported ERRO at the end of the round.
C15_InterRoundWait ==
  /\ [][(pcMain # "wait" /\ pcMain' = "wait") =>
          /\ pcMain = "round"
          /\ pendingCnpjs' # {}
          /\ roundIndex < 1 + options.reprocessRounds
          /\ ~stopRequested
          /\ roundIndex' = roundIndex
          /\ mainWakeAt' - now =
               1000 * (IF 2 * roundIndex < 8 THEN 2 * roundIndex ELSE 8)]_vars
  /\ [][(pcMain = "wait" /\ pcMain' # "wait") =>
          \/ pcMain' = "loop" /\ now >= mainWakeAt /\ roundIndex' = roundIndex + 1
          \/ pcMain' = "finish" /\ stopRequested /\ interrupted']_vars
  /\ [][(pcMain = "round" /\ pcMain' \notin {"round", "wait"}) =>
          \/ stopRequested
          \/ pendingCnpjs' = {}
          \/ roundIndex >= 1 + options.reprocessRounds]_vars
  /\ [](options.reprocessRounds = 0 => pcMain # "wait")
  /\ [][(options.reprocessRounds = 0 /\ pcMain = "round" /\ pcMain' # "round") =>
          \A c \in DOMAIN results :
            results[c].status = "ERRO" =>
              /\ c \notin pendingCnpjs'
              /\ \A i \in 1..Len(job.rowsByCnpj[c]) :
                   \E k \in EntriesOf(job'.detailedRows, job.rowsByCnpj[c][i]) :
                     job'.detailedRows[k].resultado = "ERRO"]_vars

\* C15 witness: the job waits the capped 8 seconds after its fifth round.
C15_Witness ==
  /\ pcMain = "wait"
  /\ roundIndex = 5
  /\ mainWakeAt = now + 8000
  /\ ~stopRequested

\* C15 second case: reprocessRounds = 0 and the only attempt failed.
C15_NoRetryWitness ==
  /\ pcMain = "done"
  /\ options.reprocessRounds = 0
  /\ now = 0
  /\ \E i \in 1..Len(reportFile) :
       reportFile[i].resultado = "ERRO" /\ reportFile[i].origem = "API"

(***************************************************************************)
(* Claims about the main process (specification SpecMain).                 *)
(***************************************************************************)
\* A field of a request is a number that is an integer of this range.
IsIntegerWithin(value, low, high) ==
  /\ value.t = "num"
  /\ value.milli % 1000 = 0
  /\ low * 1000 <= value.milli
  /\ value.milli <= high * 1000

\* The four numeric fields of a request are as the job input requires:
\* delaySeconds a finite number > 0, workers an integer in 1..32,
\* reprocessRounds an integer in 0..10, maxRows null (or left out) or a
\* non-negative integer.
NumbersWellFormed(fields) ==
  /\ Get(fields, "delaySeconds").t = "num" /\ Get(fields, "delaySeconds").milli > 0
  /\ IsIntegerWithin(Get(fields, "workers"), 1, 32)
  /\ IsIntegerWithin(Get(fields, "reprocessRounds"), 0, 10)
  /\ \/ Get(fields, "maxRows").t \in {"null", "absent"}
     \/ /\ Get(fields, "maxRows").t = "num"
        /\ Get(fields, "maxRows").milli % 1000 = 0
        /\ Get(fields, "maxRows").milli >= 0

\* C17: a startJob call whose request has a numeric field that is not as
\* the job input requires is answered with an error, constructs no Worker
\* and leaves activeWorker and activeJobId as they were.
C17_InvalidStartRejected ==
  [][(/\ ipcCalls' # ipcCalls
      /\ ipcReply'[1].channel = "startJob"
      /\ ipcPayload'[1].t = "obj"
      /\ ~NumbersWellFormed(ipcPayload'[1].f))
       => (/\ ~ipcReply'[1].ok
           /\ created' = created
           /\ activeWorker' = activeWorker
           /\ activeJobId' = activeJobId)]_vars

(***************************************************************************)
(* Claims about parseGenericSimples (specification SpecParse).             *)
(***************************************************************************)
\* The text holds the word SIMPLES, in any mix of upper and lower case.
HoldsSimples(text) ==
  LET upper == <<"S","I","M","P","L","E","S">>
      lower == <<"s","i","m","p","l","e","s">>
  IN \E i \in 1..Len(text) :
       /\ i + 6 <= Len(text)
       /\ \A k \in 1..7 : text[i + k - 1] \in {upper[k], lower[k]}

\* A field of the payload is a boolean.
IsBoolean(payload, name) == name \in DOMAIN payload /\ payload[name].t = "bool"

\* The reference procedure of the claim, giving "SIM" or "NAO".
ReferenceStatus(payload) ==
  LET yes(flag) == IF flag THEN "SIM" ELSE "NAO"
      nested == /\ "simples" \in DOMAIN payload
                /\ payload["simples"].t = "obj"
                /\ "optante" \in DOMAIN payload["simples"].f
                /\ payload["simples"].f["optante"].t = "bool"
  IN CASE nested -> yes(payload["simples"].f["optante"].b)
       [] ~nested /\ IsBoolean(payload, "simples") -> yes(payload["simples"].b)
       [] ~nested /\ ~IsBoolean(payload, "simples") /\ IsBoolean(payload, "opcao_pelo_simples") ->
            yes(payload["opcao_pelo_simples"].b)
       [] /\ ~nested /\ ~IsBoolean(payload, "simples")
          /\ ~IsBoolean(payload, "opcao_pelo_simples")
          /\ IsBoolean(payload, "opcao_simples") -> yes(payload["opcao_simples"].b)
       [] OTHER ->
            IF /\ "regime_tributario" \in DOMAIN payload
               /\ payload["regime_tributario"].t = "arr"
               /\ Len(payload["regime_tributario"].items) > 0
            THEN yes(\E i \in 1..Len(payload["regime_tributario"].items) :
                       LET entry == payload["regime_tributario"].items[i]
                       IN /\ entry.t = "obj"
                          /\ "forma_de_tributacao" \in DOMAIN entry.f
                          /\ entry.f["forma_de_tributacao"].t = "str"
                          /\ HoldsSimples(entry.f["forma_de_tributacao"].s))
            ELSE "NAO"

\* C20: what parseGenericSimples returns for a parsed payload has the status
\* of the reference procedure (simples.optante, then the top-level booleans
\* simples, opcao_pelo_simples, opcao_simples, then regime_tributario, then
\* NAO), names the provider, and is never ERRO.
C20_ParseMatchesReference ==
  parseOutput # <<>> =>
    /\ parseOutput[1].status = ReferenceStatus(parseInput[1].payload)
    /\ parseOutput[1].status # "ERRO"
    /\ parseOutput[1].provider = parseInput[1].providerName

\* C20 witness: the payload is decided by regime_tributario, whose second
\* entry names the regime in lower case, the fields before it not being
\* booleans.
C20_Witness ==
  /\ parseOutput # <<>>
  /\ parseOutput[1].status = "SIM"
  /\ "simples" \in DOMAIN parseInput[1].payload
  /\ parseInput[1].payload["simples"].t = "obj"
  /\ "opcao_pelo_simples" \in DOMAIN parseInput[1].payload
  /\ parseInput[1].payload["opcao_pelo_simples"].t = "str"
  /\ "opcao_simples" \notin DOMAIN parseInput[1].payload
  /\ "regime_tributario" \in DOMAIN parseInput[1].payload
  /\ parseInput[1].payload["regime_tributario"].t = "arr"
  /\ Len(parseInput[1].payload["regime_tributario"].items) = 2

(***************************************************************************)
(* Claims about soft failures (specification SpecSoft).                    *)
(***************************************************************************)
\* A step of the job or of one of its workers (any step but the stop).
JobProgress ==
  \/ RunWorkerFails \/ Prepare \/ RoundLoopExit \/ RoundBegin \/ RoundEnd
  \/ WaitWake \/ WaitStop \/ Finish \/ Tick
  \/ \E w \in Workers :
       \/ WorkerLoop(w) \/ ChainStep(w) \/ RequestAttempt(w) \/ WaitTurnWake(w)
       \/ FetchResponse(w) \/ FetchReject(w) \/ BodyRead(w) \/ BackoffWake(w)
       \/ BackoffStop(w)

\* C16: the error event is posted only by a job that called no provider;
\* whatever soft failures the providers answer with, a started job is never
\* stuck before its done event, an identifier that every provider failed has the
\* outcome ERRO, and a job that ends uninterrupted reports ERRO for every
\* identifier whose last outcome is ERRO.
C16_SoftFailuresNeverAbort ==
  /\ errorEvent # <<>> =>
       /\ pcMain = "failed"
       /\ doneEvent = <<>>
       /\ \A p \in ProviderNames : netlog[p].count = 0
  /\ pcMain \notin {"start", "done", "failed"} => ENABLED JobProgress
  /\ pcMain \notin {"start", "failed"} => errorEvent = <<>>
  /\ \A o \in obtained :
       (\A k \in 1..Len(o.calls) : o.calls[k].status = "ERRO")
         => o.outcome.status = "ERRO" /\ Len(o.calls) = Len(PROVIDERS_FALLBACK)
  /\ (pcMain = "done" /\ ~interrupted) =>
       /\ doneEvent # <<>>
       /\ \A c \in DOMAIN results : results[c].status = "ERRO" => ReportedAs(c, "ERRO")

\* C16 witness: the job ended with its done event after a round in which
\* receitaws was paused by its cooldown, and the identifier is reported ERRO.
C16_Witness ==
  /\ pcMain = "done"
  /\ ~doneEvent[1].interrupted
  /\ doneEvent[1].erro = 1
  /\ \E c \in DOMAIN results :
       /\ results[c].status = "ERRO"
       /\ "provedor pausado" \in Range(results[c].detail)
       /\ ReportedAs(c, "ERRO")

(***************************************************************************)
(* Claims about the stop flag inside a round (specification SpecClient).   *)
(***************************************************************************)
\* The worker is blocked on a request in flight or on a timer of requestJson.
Suspended(w) == w \in DOMAIN wk /\ wk[w].pc \in {"waitTurn", "fetch", "backoff"}

\* C19: once the stop flag is set, no step dequeues an identifier, none
\* sends a request, none begins a round, and the step that ends a request in
\* flight, a wait of the limiter or a backoff is the stop outcome: the worker
\* leaves its loop and no provider outcome is recorded.
C19_StopEndsEveryWait ==
  [][stopRequested =>
       /\ taken' = taken
       /\ netlog' = netlog
       /\ pcMain' = "round" => pcMain = "round"
       /\ \A w \in Workers :
            (Suspended(w) /\ w \in DOMAIN wk' /\ wk'[w] # wk[w]) =>
              /\ wk'[w].pc = "exit"
              /\ obtained' = obtained
              /\ results' = results
              /\ providerFailures' = providerFailures]_vars

(***************************************************************************)
(* Claims about the job that is never stopped (specification SpecNoStop).  *)
(***************************************************************************)
\* C18: a job that is never stopped runs a round only while
\* roundIndex <= 1 + reprocessRounds and, from the top of its round loop,
\* eventually posts the done event, with interrupted = false, nothing
\* pending and processed = total.
C18_TerminatesWithinRounds ==
  /\ [](pcMain = "round" => roundIndex \in 1..maxRounds)
  /\ [](pcMain = "done" =>
          /\ doneEvent # <<>>
          /\ ~doneEvent[1].interrupted
          /\ pendingCnpjs = {}
          /\ doneEvent[1].processed = doneEvent[1].total
          /\ roundIndex <= maxRounds + 1)
  /\ [](pcMain = "loop" => <>(pcMain = "done"))

\* C18 witness: the job ended after its last possible round, which it ran
\* because a soft error of the round before was queued again.
C18_Witness ==
  /\ pcMain = "done"
  /\ ~stopRequested
  /\ maxRounds = 1 + MaxRetryRounds
  /\ roundIndex = maxRounds + 1
  /\ doneEvent[1].total > 0
  /\ doneEvent[1].erro > 0
  /\ doneEvent[1].processed = doneEvent[1].total

(***************************************************************************)
(* Claims about the failure counters and the cooldown (SpecClient).        *)
(***************************************************************************)
\* C21: while the cooldown of a provider has not expired no step clears it
\* or brings its end forward.
C21_CooldownKeptUntilExpiry ==
  [][\A p \in ProviderNames :
       providerCooldownUntil[p] > now =>
         providerCooldownUntil'[p] >= providerCooldownUntil[p]]_vars

\* The step handles the answer (or the failure) of a request of worker w to
\* provider p: the worker was awaiting fetch or response.json().
AttemptEnds(w, p) ==
  /\ wk[w].pc \in {"fetch", "body"}
  /\ ProviderOf(w) = p
  /\ wk'[w] # wk[w]

\* C22: the failure counter of a provider grows by one, and only in a step
\* that ends a request to that provider; the cooldown is set only by such a
\* step, when it is the fourth failure counted, for 45 s, with the counter
\* back to 0.
C22_OneIncrementPerFailedAttempt ==
  [][\A p \in ProviderNames :
       /\ providerFailures'[p] \in {providerFailures[p], providerFailures[p] + 1, 0}
       /\ (\/ providerFailures'[p] = providerFailures[p] + 1
           \/ providerCooldownUntil'[p] > providerCooldownUntil[p])
            => \E w \in Workers : AttemptEnds(w, p)
       /\ providerCooldownUntil'[p] > providerCooldownUntil[p] =>
            /\ providerFailures[p] = PROVIDER_FAILURE_THRESHOLD - 1
            /\ providerFailures'[p] = 0
            /\ providerCooldownUntil'[p] = now + PROVIDER_COOLDOWN_MS]_vars

(***************************************************************************)
(* Claims about the rounds of one identifier (specification Spec).         *)
(***************************************************************************)
\* The sequence has no element twice.
NoRepeat(seq) == \A i, k \in 1..Len(seq) : i # k => seq[i] # seq[k]

\* C23: a round runs with roundIndex in 1..maxRounds, and roundIndex grows
\* by one between two rounds; in a round each identifier is listed and
\* dequeued at most once; the list of a round after the first holds only
\* identifiers whose outcome of the round before was ERRO, and is made with
\* the stop flag clear; an identifier that has a recorded outcome (definitive
\* or final ERRO) keeps it and is in no pending set and in no list afterwards.
C23_PendingOnlySoftErrors ==
  /\ [](pcMain = "round" =>
          /\ roundIndex \in 1..maxRounds
          /\ NoRepeat(cnpjs) /\ NoRepeat(taken)
          /\ Range(taken) \subseteq Range(cnpjs)
          /\ \A c \in Range(cnpjs) : c \notin DOMAIN job.outcomeByCnpj)
  /\ [][(pcMain = "loop" /\ pcMain' = "round") =>
          /\ roundIndex' = roundIndex
          /\ Range(cnpjs') = pendingCnpjs
          /\ roundIndex >= 2 =>
               /\ ~stopRequested
               /\ \A c \in pendingCnpjs :
                    c \in DOMAIN results /\ results[c].status = "ERRO"]_vars
  /\ [][(pcMain \in {"round", "wait"} /\ pcMain' = "loop") =>
          roundIndex' = roundIndex + 1]_vars
  /\ [][(pcMain = "round" /\ pcMain' # "round" /\ ~stopRequested) =>
          pendingCnpjs' = IF roundIndex < maxRounds
                          THEN {c \in Range(cnpjs) : results[c].status = "ERRO"}
                          ELSE {}]_vars
  /\ [][\A c \in DOMAIN job.outcomeByCnpj :
          /\ c \in DOMAIN job'.outcomeByCnpj
          /\ job'.outcomeByCnpj[c] = job.outcomeByCnpj[c]
          /\ c \notin pendingCnpjs']_vars

\* C23 witness: the second round runs for one identifier whose first outcome
\* was ERRO, while the other identifier was resolved by the first round.
C23_Witness ==
  /\ pcMain = "round"
  /\ roundIndex = 2
  /\ Len(cnpjs) = 1
  /\ taken = cnpjs
  /\ \E c \in DOMAIN job.outcomeByCnpj :
       /\ job.outcomeByCnpj[c].provider # "CACHE"
       /\ job.outcomeByCnpj[c].status \in {"SIM", "NAO"}
       /\ c \notin Range(cnpjs)

\* Every row of identifier c has exactly one entry in the report, with this
\* result and this origin.
ReportedFrom(report, c, resultado, origem) ==
  \A i \in 1..Len(job.rowsByCnpj[c]) :
    /\ Cardinality(EntriesOf(report, job.rowsByCnpj[c][i])) = 1
    /\ \A k \in EntriesOf(report, job.rowsByCnpj[c][i]) :
         report[k].resultado = resultado /\ report[k].origem = origem

\* C24: the wait between two rounds happens with identifiers pending and a
\* round left; with the stop flag set the wait is left for the end of the
\* job with interrupted = true, or for the top of the loop, which then
\* leaves for the end of the job with interrupted = true: no round begins;
\* the end of an interrupted job reports every pending identifier PENDENTE
\* with origin INTERRUPCAO and adds nothing to processed or erro.
C24_StopDuringRoundWait ==
  /\ [](pcMain = "wait" => pendingCnpjs # {} /\ roundIndex < maxRounds)
  /\ [][(pcMain = "wait" /\ stopRequested) =>
          /\ pcMain' \in {"wait", "loop", "finish"}
          /\ pcMain' = "finish" => interrupted'
          /\ pendingCnpjs' = pendingCnpjs
          /\ job' = job]_vars
  /\ [][(pcMain = "loop" /\ stopRequested /\ pendingCnpjs # {} /\ roundIndex <= maxRounds) =>
          /\ pcMain' = "finish"
          /\ interrupted'
          /\ pendingCnpjs' = pendingCnpjs
          /\ job' = job]_vars
  /\ [][(pcMain = "finish" /\ interrupted /\ pcMain' # "finish") =>
          /\ pcMain' = "done"
          /\ doneEvent'[1].interrupted
          /\ doneEvent'[1].processed = job.processed
          /\ doneEvent'[1].erro = job.erroCount
          /\ \A c \in pendingCnpjs :
               ReportedFrom(reportFile', c, "PENDENTE", "INTERRUPCAO")]_vars

\* C24 witness: the job ended interrupted after its first round, which had
\* returned a soft error for the identifier that is still pending: the stop
\* came during the wait before the second round.
C24_Witness ==
  /\ pcMain = "done"
  /\ doneEvent[1].interrupted
  /\ roundIndex < maxRounds
  /\ \E c \in pendingCnpjs :
       /\ c \in DOMAIN results
       /\ results[c].status = "ERRO"
       /\ ReportedFrom(reportFile, c, "PENDENTE", "INTERRUPCAO")
  /\ doneEvent[1].processed < doneEvent[1].total

\* Every row of identifier c has an entry of job j's report with this result
\* and this origin, and no entry with another result.
RowsWritten(j, c, resultado, origem) ==
  \A i \in 1..Len(j.rowsByCnpj[c]) :
    /\ EntriesOf(j.detailedRows, j.rowsByCnpj[c][i]) # {}
    /\ \A k \in EntriesOf(j.detailedRows, j.rowsByCnpj[c][i]) :
         j.detailedRows[k].resultado = resultado /\ j.detailedRows[k].origem = origem

\* C25: when the outcomes of a round are processed in its last round or with
\* the stop flag set, every identifier whose outcome is ERRO gets the final
\* outcome ERRO, its rows are reported ERRO and it leaves the pending set;
\* an identifier gets the outcome NAO only from a NAO of the resolver, which
\* is the NAO of the provider it called last; a NAO row of the report comes
\* from the cache file or from such an outcome; semDado is always 0.
C25_SoftErrorFinalizedErro ==
  /\ [][(pcMain = "round" /\ pcMain' # "round") =>
          \A c \in Range(cnpjs) \cap DOMAIN results :
            /\ (results[c].status = "ERRO" /\ (roundIndex = maxRounds \/ stopRequested)) =>
                 /\ c \in DOMAIN job'.outcomeByCnpj
                 /\ job'.outcomeByCnpj[c].status = "ERRO"
                 /\ RowsWritten(job', c, "ERRO", "API")
                 /\ c \notin pendingCnpjs'
            /\ (c \in DOMAIN job'.outcomeByCnpj /\ job'.outcomeByCnpj[c].status = "NAO") =>
                 results[c].status = "NAO"]_vars
  /\ [](\A o \in obtained :
          o.outcome.status = "NAO" =>
            /\ o.calls[Len(o.calls)].status = "NAO"
            /\ o.outcome.provider = o.calls[Len(o.calls)].provider)
  /\ [](\A i \in 1..Len(job.detailedRows) :
          job.detailedRows[i].resultado = "NAO" =>
            \/ /\ job.detailedRows[i].origem = "CACHE"
               /\ CachedStatus(loadCache(cacheFile), job.detailedRows[i].cnpj_limpo) = "NAO"
            \/ /\ job.detailedRows[i].origem = "API"
               /\ job.detailedRows[i].provedor \in ProviderNames
               /\ job.outcomeByCnpj[job.detailedRows[i].cnpj_limpo].status = "NAO")
  /\ [](job.semDadoCount = 0)
  /\ [](pcMain = "done" => doneEvent[1].semDado = 0)

\* C25 witness: the job was stopped during its first round with a round
\* left, and the identifier that got a soft error in that round is reported
\* ERRO while the other one is reported NAO from a provider.
C25_Witness ==
  /\ pcMain = "done"
  /\ doneEvent[1].interrupted
  /\ roundIndex < maxRounds
  /\ \E c \in DOMAIN job.outcomeByCnpj :
       /\ job.outcomeByCnpj[c].status = "ERRO"
       /\ ReportedFrom(reportFile, c, "ERRO", "API")
  /\ \E c \in DOMAIN job.outcomeByCnpj :
       /\ job.outcomeByCnpj[c].status = "NAO"
       /\ ReportedFrom(reportFile, c, "NAO", "API")

\* The job ended uninterrupted with a soft error finalized by its last round.
C25_LastRoundWitness ==
  /\ pcMain = "done"
  /\ ~doneEvent[1].interrupted
  /\ maxRounds = 2
  /\ \E c \in DOMAIN job.outcomeByCnpj :
       /\ job.outcomeByCnpj[c].status = "ERRO"
       /\ ReportedFrom(reportFile, c, "ERRO", "API")

\* C26 is about the end of an uninterrupted job that still has identifiers
\* pending.  No job reaches it: when a job that was not interrupted is at
\* its tail, nothing is pending.
C26_NothingPendingUnlessInterrupted ==
  (pcMain = "finish" /\ ~interrupted) => pendingCnpjs = {}
(***************************************************************************)
(* C27: progress weighting.  The weight credited so far (visualProgress)   *)
(* is at every point at most total and at least the number of processed   *)
(* rows; before the first round it is the number of invalid and cache-hit  *)
(* rows; an identifier is credited once per round in which it concludes;   *)
(* and once every identifier is finalized the weight is total exactly.     *)
(***************************************************************************)
C27_ProgressWeighting ==
  /\ [](pcMain \notin {"start", "failed"} =>
         /\ ~NumberLess(NumberOf(total), job.visualProgress)
         /\ ~NumberLess(job.visualProgress, NumberOf(job.processed))
         /\ (pcMain = "loop" /\ roundIndex = 1) =>
               job.visualProgress = NumberOf(job.invalidCount + job.cacheHits)
         /\ job.processed = total => job.visualProgress = NumberOf(total))
  /\ [][(pcMain = "round" /\ pcMain' = "round" /\ job' # job) =>
          \E c \in Range(cnpjs) \ job.roundSeen :
            /\ job'.roundSeen = job.roundSeen \cup {c}
            /\ job'.attemptsByCnpj[c] = job.attemptsByCnpj[c] + 1
            /\ job'.visualProgress =
                 NumberAdd(job.visualProgress,
                           NumberDiv(Len(job.rowsByCnpj[c]), maxRounds))]_vars

(***************************************************************************)
(* C28: one call of requestJson sends at most MAX_RETRIES requests.  The   *)
(* attempt number stays within 1..MAX_RETRIES and a request is sent only   *)
(* at the top of an attempt; the answer to a request either ends the call  *)
(* (429, a status other than 200 below 500, a body that is not JSON or not *)
(* an object, a success, a cooldown that starts) or, for a status >= 500   *)
(* or a network failure, starts a pause of min(2 * attempt, 4) seconds;    *)
(* only the end of that pause leads to the next attempt.                   *)
(***************************************************************************)
InRequestJson(w) == wk[w].pc \in {"request", "waitTurn", "fetch", "body", "backoff"}

\* The step ends the call of requestJson that worker w was in.
RequestJsonEnds(w) ==
  \/ wk'[w].pc \notin {"request", "waitTurn", "fetch", "body", "backoff"}
  \/ wk'[w].idx # wk[w].idx

C28_AtMostMaxRetriesDispatches ==
  /\ [](pcMain = "round" =>
          \A w \in Workers : InRequestJson(w) => wk[w].attempt \in 1..MAX_RETRIES)
  /\ [][pcMain = "round" /\ pcMain' = "round" =>
          \A w \in Workers :
            (InRequestJson(w) /\ wk'[w] # wk[w] /\ ~RequestJsonEnds(w)) =>
              /\ wk'[w].pc = "fetch" =>
                    /\ wk[w].pc \in {"request", "waitTurn"}
                    /\ wk'[w].attempt = wk[w].attempt
                    /\ netlog'[ProviderOf(w)].last = now
              /\ wk[w].pc \in {"request", "waitTurn"} =>
                    /\ wk'[w].pc \in {"waitTurn", "fetch"}
                    /\ wk'[w].attempt = wk[w].attempt
              /\ wk[w].pc = "fetch" => wk'[w].pc \in {"body", "backoff"}
              /\ wk[w].pc # "body"
              /\ wk'[w].pc = "backoff" =>
                    /\ wk[w].pc = "fetch"
                    /\ wk'[w].attempt = wk[w].attempt
                    /\ wk'[w].lastError \in {"erro no servidor", "falha de rede"}
                    /\ wk'[w].wakeAt = now + Min(2 * wk[w].attempt, 4) * 1000
              /\ wk[w].pc = "backoff" =>
                    /\ wk'[w].pc = "request"
                    /\ now >= wk[w].wakeAt
                    /\ wk'[w].attempt = wk[w].attempt + 1]_vars

\* The second request of a call failed as the first one did: the worker is
\* in the pause that follows the last attempt.
C28_Witness ==
  /\ pcMain = "round"
  /\ \E w \in Workers :
       /\ wk[w].pc = "backoff"
       /\ wk[w].attempt = MAX_RETRIES
       /\ wk[w].wakeAt = now + 4000

(***************************************************************************)
(* C29: a successful response of a provider (HTTP 200 whose body is a JSON *)
(* object) sets the failure counter of that provider to 0 and removes its  *)
(* cooldown, and leaves the counter and the cooldown of every other        *)
(* provider as they were.                                                  *)
(***************************************************************************)
\* The details with which requestJson reports a body that is no JSON object.
BodyFailureTexts ==
  {"resposta invalida", "payload inesperado",
   "pausado por 45s por respostas invalidas consecutivas",
   "pausado por 45s por payload inesperado consecutivo"}

\* The step is the one in which requestJson returns a payload to worker w:
\* the provider function answers SIM or NAO, or a soft error that is not one
\* of requestJson.
PayloadReturned(w) ==
  /\ pcMain = "round"
  /\ wk[w].pc = "body"
  /\ \/ /\ wk'[w].pc = "loop"
        /\ wk[w].cnpj \in DOMAIN results'
        /\ results'[wk[w].cnpj].provider = ProviderOf(w)
        /\ results'[wk[w].cnpj].status \in {"SIM", "NAO"}
     \/ /\ wk'[w].pc = "chain"
        /\ wk'[w].idx = wk[w].idx + 1
        /\ wk'[w].errors[Len(wk'[w].errors)].detail[2] \notin BodyFailureTexts

C29_SuccessResetsOnlyThatProvider ==
  [][\A w \in Workers :
       PayloadReturned(w) =>
         /\ providerFailures'[ProviderOf(w)] = 0
         /\ providerCooldownUntil'[ProviderOf(w)] = 0
         /\ \A q \in ProviderNames \ {ProviderOf(w)} :
              /\ providerFailures'[q] = providerFailures[q]
              /\ providerCooldownUntil'[q] = providerCooldownUntil[q]]_vars

\* A provider whose request was sent while its cooldown was running has
\* answered SIM or NAO in this round: its cooldown is gone and its counter
\* is 0.
C29_Witness ==
  /\ pcMain = "round"
  /\ \E p \in ProviderNames :
       /\ netlog[p].paused > 0
       /\ providerCooldownUntil[p] = 0
       /\ providerFailures[p] = 0
       /\ \E o \in obtained : o.outcome.provider = p /\ o.outcome.status \in {"SIM", "NAO"}

(***************************************************************************)
(* C30: when no provider of the chain answers SIM or NAO for an            *)
(* identifier, consultarSimples returns ERRO with provider 'fallback' and  *)
(* the details of the four providers, in chain order, joined by ' | '.  A  *)
(* provider that is in its cooldown is not queried: it adds the soft error *)
(* 'provedor pausado' and the chain goes on with the next provider.        *)
(***************************************************************************)
\* The detail of the fallback outcome: the three details collected before
\* the last provider, then the detail of the last provider.
JoinedInChainOrder(detail, errors) ==
  LET head == errors[1].detail \o <<"|">> \o errors[2].detail \o <<"|">>
                \o errors[3].detail \o <<"|">>
  IN /\ Len(detail) > Len(head)
     /\ SubSeq(detail, 1, Len(head)) = head
     /\ detail[Len(head) + 1] = PROVIDERS_FALLBACK[4]
     /\ \A k \in Len(head) + 1..Len(detail) : detail[k] # "|"

C30_AllSoftFailuresGiveFallback ==
  /\ [][\A w \in Workers :
          (/\ pcMain = "round"
           /\ wk[w].pc \in {"request", "waitTurn", "fetch", "body", "backoff"}
           /\ wk[w].idx = Len(PROVIDERS_FALLBACK)
           /\ wk'[w].pc = "loop"
           /\ results'[wk[w].cnpj].status \notin {"SIM", "NAO"}) =>
            /\ results'[wk[w].cnpj].status = "ERRO"
            /\ results'[wk[w].cnpj].provider = "fallback"
            /\ Len(wk[w].errors) = 3
            /\ \A i \in 1..3 :
                 /\ wk[w].errors[i].status = "ERRO"
                 /\ wk[w].errors[i].provider = PROVIDERS_FALLBACK[i]
                 /\ wk[w].errors[i].detail[1] = PROVIDERS_FALLBACK[i]
                 /\ "|" \notin Range(wk[w].errors[i].detail)
            /\ JoinedInChainOrder(results'[wk[w].cnpj].detail, wk[w].errors)]_vars
  /\ [][\A w \in Workers :
          (/\ pcMain = "round"
           /\ wk[w].pc = "request"
           /\ ~stopRequested
           /\ providerCooldownRemaining(ProviderOf(w)) > 0
           /\ wk[w].idx < Len(PROVIDERS_FALLBACK)
           /\ wk'[w] # wk[w]) =>
            /\ wk'[w].pc = "chain"
            /\ wk'[w].idx = wk[w].idx + 1
            /\ Len(wk'[w].errors) = Len(wk[w].errors) + 1
            /\ wk'[w].errors[Len(wk'[w].errors)].status = "ERRO"
            /\ wk'[w].errors[Len(wk'[w].errors)].provider = ProviderOf(w)
            /\ wk'[w].errors[Len(wk'[w].errors)].detail[2] = "provedor pausado"
            /\ netlog' = netlog]_vars

\* An identifier got the fallback outcome in a round in which receitaws was
\* skipped because of its cooldown.
C30_Witness ==
  /\ pcMain = "round"
  /\ \E c \in DOMAIN results :
       /\ results[c].status = "ERRO"
       /\ results[c].provider = "fallback"
       /\ results[c].detail[1] = "receitaws"
       /\ results[c].detail[2] = "provedor pausado"
       /\ Cardinality({k \in 1..Len(results[c].detail) : results[c].detail[k] = "|"}) = 3

(***************************************************************************)
(* C31: a response whose status is neither 200, 429 nor >= 500 (404 in the *)
(* model) and a call of requestJson that returns at once because the       *)
(* provider is in its cooldown leave the failure counters and the          *)
(* cooldowns as they were.                                                 *)
(***************************************************************************)
\* Whether the sequence ends with the given tokens.
EndsWith(seq, suffix) ==
  /\ Len(seq) >= Len(suffix)
  /\ SubSeq(seq, Len(seq) - Len(suffix) + 1, Len(seq)) = suffix

\* The step is the one in which the provider function of worker w returns
\* the soft error whose detail is `detail`.
SoftErrorReturned(w, detail) ==
  \/ /\ wk'[w].pc = "chain"
     /\ wk'[w].idx = wk[w].idx + 1
     /\ wk'[w].errors[Len(wk'[w].errors)].detail = detail
  \/ /\ wk'[w].pc = "loop"
     /\ wk[w].idx = Len(PROVIDERS_FALLBACK)
     /\ wk[w].cnpj \in DOMAIN results'
     /\ results'[wk[w].cnpj].provider = "fallback"
     /\ EndsWith(results'[wk[w].cnpj].detail, detail)

C31_OtherStatusAndSkipKeepBreaker ==
  [][\A w \in Workers :
       (/\ pcMain = "round"
        /\ \/ /\ wk[w].pc = "fetch"
              /\ SoftErrorReturned(w, <<ProviderOf(w), "HTTP", "404">>)
           \/ /\ wk[w].pc = "request"
              /\ ~stopRequested
              /\ providerCooldownRemaining(ProviderOf(w)) > 0
              /\ wk'[w] # wk[w]) =>
         /\ providerFailures' = providerFailures
         /\ providerCooldownUntil' = providerCooldownUntil]_vars

\* An identifier got the fallback outcome after receitaws was skipped in its
\* cooldown and cnpjws answered 404: the cooldown of receitaws is still
\* running and cnpjws has a failure counted.
C31_Witness ==
  /\ pcMain = "round"
  /\ providerCooldownUntil["receitaws"] > now
  /\ providerFailures["cnpjws"] > 0
  /\ \E c \in DOMAIN results :
       /\ results[c].provider = "fallback"
       /\ results[c].detail[2] = "provedor pausado"
       /\ EndsWith(results[c].detail, <<"cnpjws", "HTTP", "404">>)

(***************************************************************************)
(* C32: the rows that carry one identifier are resolved together.  The     *)
(* list of a round names an identifier once, it is dequeued once and gets  *)
(* one outcome, however many rows carry it; in the report written at the   *)
(* end of the job every row of the identifier has one entry and all these  *)
(* entries have the same resultado, origem and provedor.                   *)
(***************************************************************************)
\* The entries of the written report for identifier c.
EntriesOfCnpj(c) == {i \in 1..Len(reportFile) : reportFile[i].cnpj_limpo = c}

C32_RowsOfOneIdentifierTogether ==
  /\ pcMain = "round" =>
       /\ NoRepeat(cnpjs)
       /\ \A c \in Range(cnpjs) :
            /\ c \in DOMAIN job.rowsByCnpj
            /\ Cardinality({i \in 1..Len(taken) : taken[i] = c}) <= 1
            /\ Cardinality({o \in obtained : o.cnpj = c}) <= 1
  /\ pcMain = "done" =>
       \A c \in DOMAIN job.rowsByCnpj :
         /\ Cardinality(EntriesOfCnpj(c)) = Len(job.rowsByCnpj[c])
         /\ {ParseRow(reportFile[i].linha) : i \in EntriesOfCnpj(c)} = Range(job.rowsByCnpj[c])
         /\ \A i, k \in EntriesOfCnpj(c) :
              /\ reportFile[i].resultado = reportFile[k].resultado
              /\ reportFile[i].origem = reportFile[k].origem
              /\ reportFile[i].provedor = reportFile[k].provedor

\* An interrupted job ended with an identifier of two rows reported PENDENTE
\* on both and another identifier answered by a provider.
C32_Witness ==
  /\ pcMain = "done"
  /\ doneEvent[1].interrupted
  /\ \E c \in DOMAIN job.rowsByCnpj :
       /\ Len(job.rowsByCnpj[c]) = 2
       /\ \A i \in EntriesOfCnpj(c) : reportFile[i].resultado = "PENDENTE"
       /\ Cardinality(EntriesOfCnpj(c)) = 2
  /\ \E i \in 1..Len(reportFile) : reportFile[i].origem = "API"

\* A job that was not interrupted ended with an identifier of two rows
\* answered by a provider.
C32_ResolvedWitness ==
  /\ pcMain = "done"
  /\ ~doneEvent[1].interrupted
  /\ \E c \in DOMAIN job.rowsByCnpj :
       /\ Cardinality(EntriesOfCnpj(c)) = 2
       /\ \A i \in EntriesOfCnpj(c) : reportFile[i].origem = "API"

(***************************************************************************)
(* The worker thread and the main process together, for one job: startJob  *)
(* creates the worker, the 'message' listener of the main process handles  *)
(* the events the worker posted, in the order they were posted, and the    *)
(* stop handler of the worker runs only after stopJob posted the message.  *)
(* The worker can also die at any time ('error', or 'exit' with code 1).   *)
(***************************************************************************)
\* The events posted by the worker thread so far (logs left out): the
\* progress events, then the event posted by runWorker.
PostedEvents ==
  [i \in 1..Len(job.posted) |-> "progress"]
    \o (IF doneEvent # <<>> THEN <<"done">> ELSE <<>>)
    \o (IF errorEvent # <<>> THEN <<"error">> ELSE <<>>)

\* How many events of the worker the 'message' listener has handled.
HandledEvents ==
  Cardinality({i \in 1..Len(sentEvents) : sentEvents[i].message = "from the worker"})

\* The worker died: the main process sent an error event of its own.
WorkerDied == \E i \in 1..Len(sentEvents) : sentEvents[i].message # "from the worker"

\* worker.on("message", ...) for the next event posted by the worker.
WorkerMessagePosted ==
  /\ created = 1
  /\ activeWorker # 0
  /\ HandledEvents < Len(PostedEvents)
  /\ sentEvents' = Append(sentEvents, [type |-> PostedEvents[HandledEvents + 1],
                                       message |-> "from the worker"])
  /\ IF PostedEvents[HandledEvents + 1] \in {"done", "error"} THEN clearActiveJob
     ELSE UNCHANGED <<activeWorker, activeJobId>>
  /\ UNCHANGED <<WorkerThreadVars, created, workerData, ipcCalls, ipcPayload, ipcReply,
                 stopPosts, parseInput, parseOutput, ui>>

\* A step of the worker thread of the job.
WorkerThreadStep ==
  /\ created = 1
  /\ ~WorkerDied
  /\ \/ stopPosts > 0 /\ Stop
     \/ Next /\ stopRequested' = stopRequested

\* The request of the job: the worker gets it as workerData.
InitEvents ==
  /\ InitJob({500}, {[isNull |-> TRUE, n |-> 0]}, {2}, {1}, {[ok |-> FALSE, entries |-> <<>>]})
  /\ options.inputFile.ext = ".xlsx"
  /\ MainIdle
  /\ parseInput = <<>>
  /\ parseOutput = <<>>
  /\ ui = AppMounted
  /\ hosts = DefaultHosts

\* The terminal events the main process sent to the window.
TerminalsSent ==
  Cardinality({i \in 1..Len(sentEvents) : sentEvents[i].type \in {"done", "error"}})

\* One job: startJob is not called again after the job ended.
NextEvents ==
  \/ TerminalsSent = 0 /\ \E payload \in {JObj(BaseRequest), JNull} : StartJob(payload)
  \/ StopJob
  \/ WorkerThreadStep
  \/ WorkerMessagePosted
  \/ WorkerError
  \/ \E code \in {0, 1} : WorkerExit(code)

SpecEvents == InitEvents /\ [][NextEvents]_vars

(***************************************************************************)
(* C33: runWorker posts one terminal event, done or error and never both,  *)
(* and the worker posts nothing after it; of the events of one job the     *)
(* main process forwards at most one terminal event to the window, be it   *)
(* the one the worker posted or the error of a worker that died, and it    *)
(* forwards nothing of the job after that.                                 *)
(***************************************************************************)
\* runWorker is over: the worker thread posts nothing more.
C33_WorkerSilentAfterTerminal ==
  pcMain \in {"done", "failed"} =>
    /\ pcMain' = pcMain
    /\ job'.posted = job.posted
    /\ doneEvent' = doneEvent
    /\ errorEvent' = errorEvent

\* An event is sent to the window only for the active job, one at a time; a
\* terminal event ends the job, and a forwarded event is the next posted one.
C33_ForwardOnlyWhileActive ==
  sentEvents' # sentEvents =>
    /\ activeWorker # 0
    /\ Len(sentEvents') = Len(sentEvents) + 1
    /\ SubSeq(sentEvents', 1, Len(sentEvents)) = sentEvents
    /\ (sentEvents'[Len(sentEvents')].type \in {"done", "error"}) <=> (activeWorker' = 0)
    /\ (sentEvents'[Len(sentEvents')].message = "from the worker" =>
          sentEvents'[Len(sentEvents')].type = PostedEvents[HandledEvents + 1])

C33_OneTerminalEvent ==
  /\ [](/\ Len(doneEvent) + Len(errorEvent) <= 1
        /\ (doneEvent # <<>>) <=> (pcMain = "done")
        /\ (errorEvent # <<>>) <=> (pcMain = "failed")
        /\ TerminalsSent + (IF activeWorker # 0 THEN 1 ELSE 0) = created
        /\ \A i \in 1..Len(sentEvents) :
             sentEvents[i].type \in {"done", "error"} => i = Len(sentEvents))
  /\ [][C33_WorkerSilentAfterTerminal]_vars
  /\ [][C33_ForwardOnlyWhileActive]_vars

\* The job ran to its end: the progress events and then the done event of the
\* worker were forwarded, and the done event ended the job.
C33_Witness ==
  /\ pcMain = "done"
  /\ created = 1
  /\ activeWorker = 0
  /\ Len(sentEvents) > 2
  /\ sentEvents[Len(sentEvents)] = [type |-> "done", message |-> "from the worker"]
  /\ TerminalsSent = 1

\* The worker died after runWorker had posted done and before the main process
\* handled it: the error of the main process is the one terminal event sent.
C33_DiedWitness ==
  /\ pcMain = "done"
  /\ WorkerDied
  /\ HandledEvents < Len(PostedEvents)
  /\ TerminalsSent = 1
  /\ activeWorker = 0

(***************************************************************************)
(* C34: when done is posted, the status cell of every selected row was set *)
(* exactly once, to the resultado of the row's report entry, whether the   *)
(* job was interrupted or not.                                             *)
(***************************************************************************)
C34_StatusCellSetOncePerRow ==
  pcMain = "done" =>
    \A row \in SelectedRowNumbers :
      \A i \in EntriesOf(reportFile, row) :
        job.sheetOut[row] = <<reportFile[i].resultado>>

\* C34 for the jobs that were not interrupted.
C34_StatusCellSetWhenNotInterrupted ==
  (pcMain = "done" /\ ~doneEvent[1].interrupted) => C34_StatusCellSetOncePerRow

\* C34: a row reported PENDENTE never had its status cell set.
C34_PendingRowsHaveNoStatus ==
  pcMain = "done" =>
    \A row \in SelectedRowNumbers :
      \A i \in EntriesOf(reportFile, row) :
        IF reportFile[i].resultado = "PENDENTE" THEN job.sheetOut[row] = <<>>
        ELSE job.sheetOut[row] = <<reportFile[i].resultado>>

(***************************************************************************)
(* C35: the main process has at most one active job. activeWorker and      *)
(* activeJobId are both set or both null; startJob while a job is active   *)
(* throws and creates no worker; a terminal event sent to the window (the  *)
(* worker's done or error, a worker 'error', a non-zero exit) leaves both  *)
(* null, and a valid startJob that follows is accepted; stopJob with no    *)
(* active job returns false and posts nothing.                             *)
(***************************************************************************)
\* The handler of the channel ran in this step.
IpcHandled(channel) ==
  /\ ipcCalls' = ipcCalls + 1
  /\ ipcReply'[1].channel = channel

C35_StartJobStep ==
  IpcHandled("startJob") =>
    IF activeWorker # 0
    THEN /\ ipcReply'[1] = [channel |-> "startJob", ok |-> FALSE,
                            value |-> "Ja existe um processamento em andamento."]
         /\ UNCHANGED <<created, workerData, activeWorker, activeJobId, sentEvents>>
    ELSE IF validateJobRequest(ipcPayload'[1]).ok
         THEN /\ ipcReply'[1].ok
              /\ created' = created + 1
              /\ activeWorker' = created'
              /\ activeJobId' = created'
         ELSE /\ ~ipcReply'[1].ok
              /\ UNCHANGED <<created, workerData, activeWorker, activeJobId>>

C35_StopJobStep ==
  IpcHandled("stopJob") =>
    /\ UNCHANGED <<activeWorker, activeJobId, created, sentEvents>>
    /\ IF activeWorker = 0
       THEN ipcReply'[1].value = "false" /\ stopPosts' = stopPosts
       ELSE ipcReply'[1].value = "true" /\ stopPosts' = stopPosts + 1

C35_TerminalEndsTheJob ==
  /\ (sentEvents' # sentEvents /\ sentEvents'[Len(sentEvents')].type \in {"done", "error"})
        => activeWorker # 0 /\ activeWorker' = 0 /\ activeJobId' = 0
  /\ created' # created => activeWorker = 0 /\ created' = created + 1

C35_AtMostOneActiveJob ==
  /\ []((activeWorker = 0) <=> (activeJobId = 0))
  /\ [](activeWorker # 0 => activeWorker = created)
  /\ [][C35_StartJobStep]_vars
  /\ [][C35_StopJobStep]_vars
  /\ [][C35_TerminalEndsTheJob]_vars

\* A job ended with a terminal event and the startJob that followed was
\* accepted: the second worker is the active one.
C35_Witness ==
  /\ created = 2
  /\ activeWorker = 2
  /\ activeJobId = 2
  /\ sentEvents # <<>>
  /\ sentEvents[Len(sentEvents)].type \in {"done", "error"}
  /\ ipcReply = <<[channel |-> "startJob", ok |-> TRUE, value |-> "jobId"]>>

\* startJob was refused while the first job was active.
C35_RefusedWitness ==
  /\ created = 1
  /\ activeWorker = 1
  /\ ipcCalls = 2
  /\ ipcReply = <<[channel |-> "startJob", ok |-> FALSE,
                   value |-> "Ja existe um processamento em andamento."]>>

\* stopJob found no active job.
C35_StopIdleWitness ==
  /\ activeWorker = 0
  /\ stopPosts = 0
  /\ ipcReply = <<[channel |-> "stopJob", ok |-> TRUE, value |-> "false"]>>

(***************************************************************************)
(* C36: at every point of the job processed = success + invalid + erro +   *)
(* semDado; in the result of the done event processed plus the number of   *)
(* rows reported PENDENTE is total, so processed = total exactly when no   *)
(* row is PENDENTE, and failed = invalid + erro + semDado.                 *)
(***************************************************************************)
PendingEntries == {i \in 1..Len(reportFile) : reportFile[i].resultado = "PENDENTE"}

C36_CounterAccounting ==
  /\ job.processed = job.success + job.invalidCount + job.erroCount + job.semDadoCount
  /\ pcMain = "done" =>
       LET result == doneEvent[1]
       IN /\ result.processed = job.processed
          /\ result.processed = result.success + result.invalid + result.erro + result.semDado
          /\ result.processed + Cardinality(PendingEntries) = result.total
          /\ (result.processed = result.total) <=> (PendingEntries = {})
          /\ result.failed = result.invalid + result.erro + result.semDado
          /\ result.invalid =
               Cardinality({i \in 1..Len(reportFile) : reportFile[i].resultado = "CNPJ_INVALIDO"})
          /\ result.erro =
               Cardinality({i \in 1..Len(reportFile) : reportFile[i].resultado = "ERRO"})

\* An interrupted job that counted rows in success and invalid and reported
\* the others PENDENTE.
C36_Witness ==
  /\ pcMain = "done"
  /\ doneEvent[1].success > 0
  /\ doneEvent[1].invalid > 0
  /\ PendingEntries # {}
  /\ doneEvent[1].processed < doneEvent[1].total

\* A job that processed every row, rows that ended in ERRO among them.
C36_CompleteWitness ==
  /\ pcMain = "done"
  /\ doneEvent[1].erro > 0
  /\ doneEvent[1].success > 0
  /\ doneEvent[1].processed = doneEvent[1].total

(***************************************************************************)
(* C37: when the round loop is left with interrupted = false nothing is    *)
(* pending. An identifier of a round is without a recorded outcome only    *)
(* if stop was requested, so the force-finalization is never run and no    *)
(* report entry has origem REPROCESSAMENTO_FINAL.                          *)
(***************************************************************************)
\* The identifiers of the round whose workers all returned that have no outcome.
WithoutOutcome ==
  IF pcMain = "round" /\ \A w \in Workers : wk[w].pc = "exit"
  THEN {c \in Range(cnpjs) : c \notin DOMAIN results}
  ELSE {}

C37_ForceFinalizationNeverRuns ==
  /\ (pcMain \in {"finish", "done"} /\ ~interrupted) => pendingCnpjs = {}
  /\ WithoutOutcome # {} => stopRequested
  /\ \A i \in 1..Len(job.detailedRows) : job.detailedRows[i].origem # "REPROCESSAMENTO_FINAL"
  /\ \A i \in 1..Len(reportFile) : reportFile[i].origem # "REPROCESSAMENTO_FINAL"
  /\ pcMain = "finish" => FinishJob(job) = IF interrupted THEN MarkPending(job, SortCnpjs(pendingCnpjs))
                                           ELSE reportVisualProgress(job, NumberOf(Len(job.selectedRows)))

\* The loop was left after its last round with interrupted = false: the round
\* ended an identifier in ERRO instead of keeping it pending.
C37_Witness ==
  /\ pcMain = "finish"
  /\ ~interrupted
  /\ roundIndex > maxRounds
  /\ pendingCnpjs = {}
  /\ \E i \in 1..Len(job.detailedRows) :
       job.detailedRows[i].resultado = "ERRO" /\ job.detailedRows[i].origem = "API"

\* A round ended with an identifier that has no outcome.
C37_StoppedWitness ==
  /\ WithoutOutcome # {}
  /\ results # <<>>

(***************************************************************************)
(* C38: an identifier that was not finalized is not credited with its full *)
(* weight: when an interrupted job reports a row PENDENTE, the last        *)
(* progress the job posted is below total.                                 *)
(***************************************************************************)
C38_PendingRowsNotCredited ==
  (pcMain = "done" /\ doneEvent[1].interrupted /\ PendingEntries # {}) =>
    job.posted[Len(job.posted)] < doneEvent[1].total

(***************************************************************************)
(* C39: a provider call that ends as a soft failure for the fallback chain *)
(* neither resets the consecutive-failure counter of the provider nor      *)
(* clears its cooldown; a receitaws response with HTTP 200 and status      *)
(* 'ERROR' in its body is such a failure and leaves the breaker state of   *)
(* receitaws as it was.                                                    *)
(***************************************************************************)
\* The call of worker w to its provider ended in this step without a
\* definitive answer: the chain goes on, or ends with the fallback outcome.
CallEndedSoftly(w) ==
  /\ pcMain = "round"
  /\ wk[w].pc \in {"request", "fetch", "body", "backoff"}
  /\ \/ /\ wk'[w].pc = "chain"
        /\ wk'[w].idx = wk[w].idx + 1
     \/ /\ wk'[w].pc = "loop"
        /\ wk[w].idx = Len(PROVIDERS_FALLBACK)
        /\ wk[w].cnpj \in DOMAIN results'
        /\ results'[wk[w].cnpj].provider = "fallback"

C39_SoftFailureKeepsBreaker ==
  [][\A w \in Workers :
       CallEndedSoftly(w) =>
         /\ providerFailures'[ProviderOf(w)] < providerFailures[ProviderOf(w)]
              => providerCooldownUntil'[ProviderOf(w)] = now + PROVIDER_COOLDOWN_MS
         /\ providerCooldownUntil'[ProviderOf(w)] >= providerCooldownUntil[ProviderOf(w)]
         /\ (/\ ProviderOf(w) = "receitaws"
             /\ wk[w].pc = "body"
             /\ SoftErrorReturned(w, <<"receitaws", "erro na consulta">>)) =>
               /\ providerFailures' = providerFailures
               /\ providerCooldownUntil' = providerCooldownUntil]_vars

(***************************************************************************)
(* The window (App) and the main process. handleStart invokes startJob and *)
(* awaits the reply; the main process sends the reply and, on another      *)
(* channel, the events of the job; the window handles the reply and the    *)
(* events one at a time, the events in the order they were sent and the    *)
(* reply at any point among them. A session is [id, status]; the id of the *)
(* job is the number of the Worker created for it.                         *)
(***************************************************************************)
\* The requests handleStart can send: the form accepts any positive integer
\* as workers, the main process at most 32.
FormRequests == {JObj(BaseRequest), JObj(WithField("workers", JNum(33000)))}

\* handleStart up to `await window.consultaSimples.startJob(...)`. The button
\* is disabled while running.
HandleStart(request) ==
  /\ ~ui.running
  /\ ui.invokes = ui.replies
  /\ ui.invokes < MaxIpcCalls
  /\ ui' = [ui EXCEPT !.running = TRUE, !.statusLabel = "Iniciando...",
                      !.request = <<request>>, !.invokes = @ + 1]
  /\ UNCHANGED <<WorkerThreadVars, MainProcessVars, parseInput, parseOutput>>

\* The main process handles the call the window made.
StartJobInvoked ==
  /\ ui.invokes > ipcCalls
  /\ StartJob(ui.request[1])

\* handleStart after the await: the reply came (try) or the call threw (catch).
HandleStartReply ==
  /\ ui.replies < ipcCalls
  /\ ui' = IF ipcReply[1].ok
           THEN [ui EXCEPT !.replies = @ + 1, !.runningSessionRef = created,
                           !.sessions = <<[id |-> created, status |-> "running"]>> \o @]
           ELSE [ui EXCEPT !.replies = @ + 1, !.running = FALSE, !.runningSessionRef = 0,
                           !.statusLabel = "message"]
  /\ UNCHANGED <<WorkerThreadVars, MainProcessVars, parseInput, parseOutput>>

\* The status a session takes with an event of its job.
SessionAfter(session, type) ==
  IF type = "done" THEN [session EXCEPT !.status = "done"]
  ELSE IF type = "error" THEN [session EXCEPT !.status = "error"]
  ELSE session

\* The listener of onJobEvent for the next event the main process sent.
OnJobEvent ==
  /\ ui.events < Len(sentEvents)
  /\ LET event == sentEvents[ui.events + 1]
         sessionId == ui.runningSessionRef
     IN ui' =
          IF sessionId = 0
          THEN [ui EXCEPT !.events = @ + 1, !.ignored = @ + 1]
          ELSE [ui EXCEPT
                  !.events = @ + 1,
                  !.sessions = [k \in 1..Len(@) |->
                                  IF @[k].id = sessionId THEN SessionAfter(@[k], event.type)
                                  ELSE @[k]],
                  !.running = IF event.type \in {"done", "error"} THEN FALSE ELSE @,
                  !.runningSessionRef = IF event.type \in {"done", "error"} THEN 0 ELSE @,
                  !.statusLabel = IF event.type = "done" THEN "Concluido"
                                  ELSE IF event.type = "error" THEN "Erro durante o processamento"
                                  ELSE IF event.type = "progress" THEN "Processando"
                                  ELSE @]
  /\ UNCHANGED <<WorkerThreadVars, MainProcessVars, parseInput, parseOutput>>

NextRenderer ==
  \/ \E request \in FormRequests : HandleStart(request)
  \/ StartJobInvoked
  \/ HandleStartReply
  \/ OnJobEvent
  \/ \E type \in {"log", "progress", "done", "error"} : WorkerMessage(type)
  \/ WorkerError
  \/ \E code \in {0, 1} : WorkerExit(code)

SpecRenderer == InitMain /\ [][NextRenderer]_vars

(***************************************************************************)
(* C40: the terminal event of the job handleStart started returns the UI   *)
(* to not running and is recorded on the session of that job, in whatever  *)
(* order the reply of startJob and the events of the job are delivered.    *)
(***************************************************************************)
\* Every job ended, and the window handled every reply and every event.
AllHandled ==
  /\ created > 0
  /\ activeWorker = 0
  /\ ui.invokes = ipcCalls
  /\ ui.replies = ipcCalls
  /\ ui.events = Len(sentEvents)

C40_TerminalEventEndsRunning ==
  AllHandled =>
    /\ ~ui.running
    /\ Len(ui.sessions) = created
    /\ \A k \in 1..Len(ui.sessions) : ui.sessions[k].status \in {"done", "error"}

\* C40 for the deliveries in which no event was handled before the reply of
\* its job.
C40_HoldsWhenReplyComesFirst ==
  ui.ignored = 0 => C40_TerminalEventEndsRunning

\* A reply handled before the events of its job, the terminal one handled.
C40_InOrderWitness ==
  /\ AllHandled
  /\ ui.ignored = 0
  /\ ui.events = 2
  /\ ~ui.running

====
